---- MODULE Spec2Model ----
(***************************************************************************)
(* A model of the toy browser's front end: the selector matcher and the    *)
(* cascade (StyleSheet::get_styles), the render-tree builder               *)
(* (RenderObject::build) and the character-level stylesheet parser         *)
(* (StyleSheetParser).                                                     *)
(*                                                                         *)
(* Rust values are modelled as follows.                                    *)
(*   Option<T>        None is << >>, Some(x) is << x >>                     *)
(*   String           a TLA+ string                                        *)
(*   Vec<T>           a sequence                                           *)
(*   enum variants    a record with a "kind" field, or the variant's name  *)
(*   BTreeMap<K, V>   the sequence of its <<key, value>> pairs in key order *)
(*   HashMap<K, V>    a function whose domain is the set of keys           *)
(*   &Node            the path of the node in the DOM (child indexes)      *)
(***************************************************************************)
EXTENDS Integers, Sequences, FiniteSets, TLC

VARIABLES
    pc,         \* position of the run: "start", then the operation performed
    element,    \* the Element handed to matches / get_styles
    selector,   \* the Selector handed to matches
    matched,    \* the result of selector.matches(element)
    sheet,      \* the StyleSheet: a sequence of rules
    styles,     \* the StyleMap returned by get_styles
    inserted,   \* the styles.insert calls get_styles made: <<rule, declaration>>
    dom,        \* the root Node handed to build
    tree,       \* Option<RenderObject> returned by build
    calls,      \* the paths of the nodes build was called on, in call order
    source,     \* the pieces the stylesheet text was put together from
    input,      \* the text handed to StyleSheetParser::new, as characters
    result      \* what the parser call returned: status, cursor and value

vars ==
    <<pc, element, selector, matched, sheet, styles, inserted, dom, tree, calls,
      source, input, result>>

(***************************************************************************)
(* Bounds of the model.                                                    *)
(***************************************************************************)
MaxSelDepth == 2    \* nesting depth of the compound selectors drawn
MaxRules == 2       \* rules per stylesheet drawn
MaxChildren == 2    \* children of the root element of the DOMs drawn
MaxValues == 5      \* value tokens of a shorthand drawn
MaxDecls == 3       \* declarations of the rule drawn
MaxChain == 3       \* selector parts of the chain drawn
MaxPairs == 4       \* hex digit pairs of the color drawn

(***************************************************************************)
(* Option<T>                                                               *)
(***************************************************************************)
None == << >>
Some(x) == << x >>
UnwrapOrDefault(opt) == IF opt = None THEN "" ELSE opt[1]

(***************************************************************************)
(* DOM data: Node, Element, ElementTagName, NodeKey.                       *)
(***************************************************************************)
OtherTag(s) == "Other(" \o s \o ")"

NewElement(tag_name, attributes, children) ==
    [kind |-> "Element", tag_name |-> tag_name, attributes |-> attributes,
     children |-> children]

TextNode(s) == [kind |-> "Text", text |-> s]
CommentNode(s) == [kind |-> "Comment", text |-> s]

\* Element::get_value_by_name: the first pair of the map whose key is node_key.
RECURSIVE GetValueFrom(_, _, _)
GetValueFrom(attributes, i, node_key) ==
    IF i > Len(attributes) THEN None
    ELSE IF attributes[i][1] = node_key THEN Some(attributes[i][2])
    ELSE GetValueFrom(attributes, i + 1, node_key)

GetValueByName(e, node_key) == GetValueFrom(e.attributes, 1, node_key)
GetId(e) == GetValueByName(e, "Id")
GetClasses(e) == GetValueByName(e, "Class")

(***************************************************************************)
(* CSSOM data: Selector, Declaration, DeclarationValue, Rule.              *)
(***************************************************************************)
Tag(tag_name) == [kind |-> "Tag", tag_name |-> tag_name]
Class(left, name) == [kind |-> "Class", left |-> left, name |-> name]
Id(left, name) == [kind |-> "Id", left |-> left, name |-> name]
Child(left, right) == [kind |-> "Child", left |-> left, right |-> right]
Adjacent(left, right) == [kind |-> "Adjacent", left |-> left, right |-> right]

OtherProperty(s) == "Other(" \o s \o ")"

NewDeclaration(property, value) == [property |-> property, value |-> value]
DisplayValue(d) == [kind |-> "Display", display |-> d]
ColorValue(r, g, b, a) == [kind |-> "Color", r |-> r, g |-> g, b |-> b, a |-> a]
LengthValue(l) == [kind |-> "Length", length |-> l]
OtherValue(s) == [kind |-> "Other", text |-> s]

NewRule(selectors, declarations) ==
    [selectors |-> selectors, declarations |-> declarations]

(***************************************************************************)
(* Selector::matches                                                       *)
(***************************************************************************)
RECURSIVE MatchesOr(_, _)
MatchesOr(sel, e) ==
    CASE sel.kind = "Tag" -> sel.tag_name = e.tag_name
      [] sel.kind = "Class" /\ sel.left # None ->
            MatchesOr(sel.left[1], e) \/ sel.name = UnwrapOrDefault(GetClasses(e))
      [] sel.kind = "Class" /\ sel.left = None ->
            sel.name = UnwrapOrDefault(GetClasses(e))
      [] sel.kind = "Id" /\ sel.left # None ->
            MatchesOr(sel.left[1], e) \/ sel.name = UnwrapOrDefault(GetId(e))
      [] sel.kind = "Id" /\ sel.left = None ->
            sel.name = UnwrapOrDefault(GetId(e))
      [] OTHER -> FALSE

RECURSIVE Matches(_, _)
Matches(sel, e) ==
    CASE sel.kind = "Tag" -> sel.tag_name = e.tag_name
      [] sel.kind = "Class" /\ sel.left # None ->
            Matches(sel.left[1], e) /\ sel.name = UnwrapOrDefault(GetClasses(e))
      [] sel.kind = "Class" /\ sel.left = None ->
            sel.name = UnwrapOrDefault(GetClasses(e))
      [] sel.kind = "Id" /\ sel.left # None ->
            Matches(sel.left[1], e) /\ sel.name = UnwrapOrDefault(GetId(e))
      [] sel.kind = "Id" /\ sel.left = None ->
            sel.name = UnwrapOrDefault(GetId(e))
      [] OTHER -> FALSE

(***************************************************************************)
(* StyleSheet::get_styles.  The accumulator carries the StyleMap and the   *)
(* log of the insert calls.                                                *)
(***************************************************************************)
EmptyStyleMap == [p \in {} |-> None]

\* HashMap::insert: the value of an existing key is overwritten.
MapInsertKeepFirst(m, k, v) ==
    [x \in DOMAIN m \cup {k} |-> IF x \in DOMAIN m THEN m[x] ELSE v]

MapInsert(m, k, v) ==
    [x \in DOMAIN m \cup {k} |-> IF x = k THEN v ELSE m[x]]

\* for declaration in rule.declarations.iter() { styles.insert(..) }
RECURSIVE InsertDeclarations(_, _, _, _)
InsertDeclarations(rule, ri, di, acc) ==
    IF di > Len(rule.declarations) THEN acc
    ELSE InsertDeclarations(rule, ri, di + 1,
            [styles |-> MapInsert(acc.styles, rule.declarations[di].property,
                                  rule.declarations[di].value),
             inserted |-> Append(acc.inserted, <<ri, di>>)])

\* The selector loop without its break: every matching selector inserts.
RECURSIVE SelectorLoopNoBreak(_, _, _, _, _)
SelectorLoopNoBreak(rule, ri, si, e, acc) ==
    IF si > Len(rule.selectors) THEN acc
    ELSE IF Matches(rule.selectors[si], e)
         THEN SelectorLoopNoBreak(rule, ri, si + 1, e,
                                  InsertDeclarations(rule, ri, 1, acc))
         ELSE SelectorLoopNoBreak(rule, ri, si + 1, e, acc)

\* for selector in rule.selectors.iter() { if matches { insert all; break } }
RECURSIVE SelectorLoop(_, _, _, _, _)
SelectorLoop(rule, ri, si, e, acc) ==
    IF si > Len(rule.selectors) THEN acc
    ELSE IF Matches(rule.selectors[si], e)
         THEN InsertDeclarations(rule, ri, 1, acc)
         ELSE SelectorLoop(rule, ri, si + 1, e, acc)

\* The rule loop, but walking the rules from the last to the first.
RECURSIVE RuleLoopBackwards(_, _, _, _)
RuleLoopBackwards(stylesheet, ri, e, acc) ==
    IF ri > Len(stylesheet) THEN acc
    ELSE RuleLoopBackwards(stylesheet, ri + 1, e,
            SelectorLoop(stylesheet[Len(stylesheet) + 1 - ri],
                         Len(stylesheet) + 1 - ri, 1, e, acc))

\* for rule in self.rules.iter() { .. }
RECURSIVE RuleLoop(_, _, _, _)
RuleLoop(stylesheet, ri, e, acc) ==
    IF ri > Len(stylesheet) THEN acc
    ELSE RuleLoop(stylesheet, ri + 1, e,
                  SelectorLoop(stylesheet[ri], ri, 1, e, acc))

GetStylesRun(stylesheet, e) ==
    RuleLoop(stylesheet, 1, e, [styles |-> EmptyStyleMap, inserted |-> << >>])

GetStyles(stylesheet, e) == GetStylesRun(stylesheet, e).styles

(***************************************************************************)
(* RenderObject::build.  A RenderObject refers to its node by the node's   *)
(* path in the DOM.  Build returns the Option<RenderObject> and the paths  *)
(* of the nodes build was called on, in call order.                        *)
(***************************************************************************)
\* if let ElementTagName::Meta | ElementTagName::Script = e.tag_name
IsExcludedTagNever(tag_name) == FALSE

IsExcludedTagMetaOnly(tag_name) == tag_name = "Meta"

IsExcludedTag(tag_name) == tag_name \in {"Meta", "Script"}

\* if let Some(DeclarationValue::Display(Display::None)) = styles.get(&Display)
IsDisplayNoneNever(st) == FALSE

IsDisplayNone(st) ==
    "Display" \in DOMAIN st /\ st["Display"] = DisplayValue("None")

\* The styles of a node, but resolved once, for the root of the DOM.
NodeStylesOfRoot(node, stylesheet) ==
    IF dom.kind = "Element" THEN GetStyles(stylesheet, dom) ELSE EmptyStyleMap

\* styles = stylesheet.get_styles(e) for an element, StyleMap::new() otherwise
NodeStyles(node, stylesheet) ==
    IF node.kind = "Element" THEN GetStyles(stylesheet, node) ELSE EmptyStyleMap

NewRenderObject(path, st, children) ==
    [node |-> path, styles |-> st, children |-> children]

RECURSIVE Build(_, _, _)
RECURSIVE BuildChildren(_, _, _, _, _)

\* The child loop, but with each kept child put in front of the earlier ones.
RECURSIVE BuildChildrenReversed(_, _, _, _, _)
BuildChildrenReversed(e, path, i, stylesheet, acc) ==
    IF i > Len(e.children) THEN acc
    ELSE LET b == Build(e.children[i], Append(path, i), stylesheet)
         IN  BuildChildrenReversed(e, path, i + 1, stylesheet,
                [children |-> IF b.result = None THEN acc.children
                              ELSE <<b.result[1]>> \o acc.children,
                 calls |-> acc.calls \o b.calls])

\* for child in e.children.iter() { if let Some(ch) = build(child) { push } }
BuildChildren(e, path, i, stylesheet, acc) ==
    IF i > Len(e.children) THEN acc
    ELSE LET b == Build(e.children[i], Append(path, i), stylesheet)
         IN  BuildChildren(e, path, i + 1, stylesheet,
                [children |-> IF b.result = None THEN acc.children
                              ELSE Append(acc.children, b.result[1]),
                 calls |-> acc.calls \o b.calls])

Build(node, path, stylesheet) ==
    IF node.kind = "Element"
    THEN IF IsExcludedTag(node.tag_name)
         THEN [result |-> None, calls |-> <<path>>]
         ELSE LET st == NodeStyles(node, stylesheet)
              IN  IF IsDisplayNone(st)
                  THEN [result |-> None, calls |-> <<path>>]
                  ELSE LET ch == BuildChildren(node, path, 1, stylesheet,
                                    [children |-> << >>, calls |-> <<path>>])
                       IN  [result |-> Some(NewRenderObject(path, st, ch.children)),
                            calls |-> ch.calls]
    ELSE [result |-> Some(NewRenderObject(path, NodeStyles(node, stylesheet), << >>)),
          calls |-> <<path>>]

(***************************************************************************)
(* StyleSheetParser.  The input is a sequence of one-character strings and *)
(* the cursor (Peekable<Chars>) is the index of the next character.  An    *)
(* operator that can fail returns a record whose status is "ok", "panic"   *)
(* (a panic!, or an unwrap of None or Err) or "hang" (a loop that no       *)
(* longer moves the cursor and so never ends).                             *)
(***************************************************************************)
Whitespace == {" ", "\n", "\t"}
Digits == {"0", "1", "2", "3", "4", "5", "6", "7", "8", "9"}
LowerLetters ==
    {"a", "b", "c", "d", "e", "f", "g", "h", "i", "j", "k", "l", "m",
     "n", "o", "p", "q", "r", "s", "t", "u", "v", "w", "x", "y", "z"}
UpperLetters ==
    {"A", "B", "C", "D", "E", "F", "G", "H", "I", "J", "K", "L", "M",
     "N", "O", "P", "Q", "R", "S", "T", "U", "V", "W", "X", "Y", "Z"}
AlphaNumeric == Digits \cup LowerLetters \cup UpperLetters
IdentifierChars == AlphaNumeric \cup {"_", "-"}
NumberChars == Digits \cup {"."}
HexChars == Digits \cup {"a", "b", "c", "d", "e", "f", "A", "B", "C", "D", "E", "F"}

DigitOrder == <<"0", "1", "2", "3", "4", "5", "6", "7", "8", "9">>
DigitValue(c) == (CHOOSE i \in 1..Len(DigitOrder) : DigitOrder[i] = c) - 1

Ok(pos, val) == [status |-> "ok", pos |-> pos, val |-> val]
Panic(pos) == [status |-> "panic", pos |-> pos, val |-> None]
Hang(pos) == [status |-> "hang", pos |-> pos, val |-> None]

\* The String made of the characters.
RECURSIVE Str(_)
Str(chars) == IF chars = << >> THEN "" ELSE Head(chars) \o Str(Tail(chars))

\* fn skip_whitespace
RECURSIVE SkipWhitespace(_, _)
SkipWhitespace(in, pos) ==
    IF pos <= Len(in) /\ in[pos] \in Whitespace
    THEN SkipWhitespace(in, pos + 1)
    ELSE pos

\* self.input.peek()
InputPeek(in, pos) == IF pos > Len(in) THEN None ELSE Some(in[pos])

\* fn peek: skips whitespace, then peeks.  The cursor and the character.
PeekAt(in, pos) == [pos |-> pos, ch |-> InputPeek(in, pos)]
Peek(in, pos) == PeekAt(in, SkipWhitespace(in, pos))

\* while let Some(ch) = self.input.next_if(cond): the cursor after the run
RECURSIVE TakeWhile(_, _, _)
TakeWhile(in, pos, cond) ==
    IF pos <= Len(in) /\ in[pos] \in cond
    THEN TakeWhile(in, pos + 1, cond)
    ELSE pos

\* The end of consume and of consume_for: the characters from a up to b are
\* the String returned, and the whitespace after them is skipped.
ConsumeRun(in, a, b) ==
    [pos |-> SkipWhitespace(in, b), chars |-> SubSeq(in, a, b - 1)]

\* fn consume
ConsumeAt(in, a, cond) == ConsumeRun(in, a, TakeWhile(in, a, cond))
Consume(in, pos, cond) == ConsumeAt(in, SkipWhitespace(in, pos), cond)

\* for _ in 0..nth { next_if(cond) or break }: the cursor after at most nth
RECURSIVE TakeFor(_, _, _, _)
TakeFor(in, pos, cond, nth) ==
    IF nth > 0 /\ pos <= Len(in) /\ in[pos] \in cond
    THEN TakeFor(in, pos + 1, cond, nth - 1)
    ELSE pos

\* fn consume_for
ConsumeForAt(in, a, cond, nth) == ConsumeRun(in, a, TakeFor(in, a, cond, nth))
ConsumeFor(in, pos, cond, nth) ==
    ConsumeForAt(in, SkipWhitespace(in, pos), cond, nth)

\* fn consume_identifier
IdentifierOf(c) == [pos |-> c.pos, text |-> Str(c.chars)]
ConsumeIdentifier(in, pos) == IdentifierOf(Consume(in, pos, IdentifierChars))

\* The value of a run of decimal digits.
RECURSIVE DecimalValue(_)
DecimalValue(chars) ==
    IF chars = << >> THEN 0
    ELSE 10 * DecimalValue(SubSeq(chars, 1, Len(chars) - 1))
           + DigitValue(chars[Len(chars)])

\* The digits of a fraction without its trailing zeros.
RECURSIVE StripZeros(_)
StripZeros(chars) ==
    IF chars # << >> /\ chars[Len(chars)] = "0"
    THEN StripZeros(SubSeq(chars, 1, Len(chars) - 1))
    ELSE chars

Number(int, frac) == [int |-> int, frac |-> frac]

DotPlaces(chars) == {i \in 1..Len(chars) : chars[i] = "."}

\* The number written with its decimal point at place dot.
NumberAround(chars, dot) ==
    Number(DecimalValue(SubSeq(chars, 1, dot - 1)),
           StripZeros(SubSeq(chars, dot + 1, Len(chars))))

\* str::parse::<f32> of a run of digits and dots: Err unless there is one dot
\* at most and a digit; the value is the integer part and the fraction digits.
ParseF32Dots(chars, dots) ==
    IF Cardinality(dots) > 1 \/ Len(chars) = Cardinality(dots)
    THEN None
    ELSE IF dots = {}
         THEN Some(Number(DecimalValue(chars), << >>))
         ELSE Some(NumberAround(chars, CHOOSE i \in dots : TRUE))
ParseF32(chars) == ParseF32Dots(chars, DotPlaces(chars))

\* fn consume_number: consume(digits and dots).parse().unwrap()
NumberOf(c, parsed) ==
    IF parsed = None THEN Panic(c.pos) ELSE Ok(c.pos, parsed[1])
ConsumedNumber(c) == NumberOf(c, ParseF32(c.chars))
ConsumeNumber(in, pos) == ConsumedNumber(Consume(in, pos, NumberChars))

HexOrder ==
    <<"0", "1", "2", "3", "4", "5", "6", "7", "8", "9", "a", "b", "c", "d", "e", "f">>
UpperHexOrder ==
    <<"0", "1", "2", "3", "4", "5", "6", "7", "8", "9", "A", "B", "C", "D", "E", "F">>
HexDigitValue(c) ==
    (CHOOSE i \in 1..Len(HexOrder) : HexOrder[i] = c \/ UpperHexOrder[i] = c) - 1

RECURSIVE HexValue(_)
HexValue(chars) ==
    IF chars = << >> THEN 0
    ELSE 16 * HexValue(SubSeq(chars, 1, Len(chars) - 1))
           + HexDigitValue(chars[Len(chars)])

\* fn consume_hex: from_str_radix(consume_for(hex, n), 16).unwrap_or_default()
HexOf(c) == [pos |-> c.pos, val |-> HexValue(c.chars)]
ConsumeHex(in, pos, n) == HexOf(ConsumeFor(in, pos, HexChars, n))

\* fn skip_next_ch: the next character, unskipped, must be ch
SkipNextCh(in, pos, ch) ==
    IF pos <= Len(in) /\ in[pos] = ch THEN Ok(pos + 1, None) ELSE Panic(pos)

\* fn bump
Bump(in, pos) == IF pos <= Len(in) THEN Ok(pos + 1, None) ELSE Panic(pos)

\* fn next: skips whitespace and drops one character, if there is one
NextAt(in, pos) == IF pos <= Len(in) THEN pos + 1 ELSE pos
NextChar(in, pos) == NextAt(in, SkipWhitespace(in, pos))

\* impl From<&str> for ElementTagName
TagFrom(name) ==
    CASE name = "html" -> "Html"
      [] name = "main" -> "Main"
      [] name = "head" -> "Head"
      [] name = "meta" -> "Meta"
      [] name = "title" -> "Title"
      [] name = "body" -> "Body"
      [] name = "style" -> "Style"
      [] name = "script" -> "Script"
      [] name = "div" -> "Div"
      [] name = "p" -> "P"
      [] name = "h1" -> "H1"
      [] name = "h2" -> "H2"
      [] name = "h3" -> "H3"
      [] name = "a" -> "A"
      [] OTHER -> OtherTag(name)

\* impl From<&str> for DeclarationProperty
PropertyFrom(name) ==
    CASE name = "margin" -> "Margin"
      [] name = "margin-left" -> "MarginLeft"
      [] name = "margin-right" -> "MarginRight"
      [] name = "margin-top" -> "MarginTop"
      [] name = "margin-bottom" -> "MarginBottom"
      [] name = "padding" -> "Padding"
      [] name = "padding-left" -> "PaddingLeft"
      [] name = "padding-right" -> "PaddingRight"
      [] name = "padding-top" -> "PaddingTop"
      [] name = "padding-bottom" -> "PaddingBottom"
      [] name = "width" -> "Width"
      [] name = "height" -> "Height"
      [] name = "display" -> "Display"
      [] name = "color" -> "Color"
      [] name = "background-color" -> "BackgroundColor"
      [] name = "border-radius" -> "BorderRadius"
      [] OTHER -> OtherProperty(name)

\* impl From<&str> for Display
DisplayFrom(key) ==
    CASE key = "none" -> "None"
      [] key = "block" -> "Block"
      [] key = "inline" -> "Inline"
      [] key = "inline-block" -> "InlineBlock"
      [] key = "flex" -> "Flex"
      [] OTHER -> "Block"

\* Length::Actual, Length::Auto
Actual(n, unit) == [kind |-> "Actual", value |-> n, unit |-> unit]
Auto == [kind |-> "Auto"]

\* The match on unit_ident of parse_declaration_actual_length.
UnitFrom(text) ==
    CASE text = "px" -> "Px"
      [] text = "em" -> "Em"
      [] OTHER -> "Px"

\* fn parse_declaration_actual_length: the number n, then the unit u
ActualLengthOf(n, u) == Ok(u.pos, Actual(n.val, UnitFrom(u.text)))
ActualLengthUnit(in, n) ==
    IF n.status # "ok" THEN n
    ELSE ActualLengthOf(n, ConsumeIdentifier(in, n.pos))
ParseDeclarationActualLength(in, pos) ==
    ActualLengthUnit(in, ConsumeNumber(in, pos))

\* Length::Auto after consume_identifier returned c.
AutoAfter(c) == Ok(c.pos, Auto)

\* fn parse_declaration_length
LengthDeclaration(prop, l) ==
    IF l.status # "ok" THEN l
    ELSE Ok(l.pos, NewDeclaration(prop, LengthValue(l.val)))
ParseDeclarationLengthAt(in, pk, prop) ==
    IF pk.ch = None THEN Panic(pk.pos)
    ELSE IF pk.ch[1] \in Digits
    THEN LengthDeclaration(prop, ParseDeclarationActualLength(in, pk.pos))
    ELSE LengthDeclaration(prop, AutoAfter(ConsumeIdentifier(in, pk.pos)))
ParseDeclarationLength(in, pos, prop) ==
    ParseDeclarationLengthAt(in, Peek(in, pos), prop)

\* The loop of parse_declaration_lengths: the Vec of the lengths read up to
\* the ';'.  An iteration that reads a character which is neither a digit,
\* a ';' nor an identifier character consumes nothing and pushes Auto, and
\* so does every iteration after it.
RECURSIVE LengthsLoop(_, _, _)
LengthsPush(in, length, l) ==
    IF l.status # "ok" THEN l
    ELSE LengthsLoop(in, l.pos, Append(length, l.val))
LengthsAuto(pk, c) ==
    IF c.pos = pk.pos THEN Hang(pk.pos) ELSE AutoAfter(c)
LengthsLoopAt(in, pk, length) ==
    IF pk.ch = None THEN Panic(pk.pos)
    ELSE IF pk.ch[1] \in Digits
    THEN LengthsPush(in, length, ParseDeclarationActualLength(in, pk.pos))
    ELSE IF pk.ch[1] = ";" THEN Ok(pk.pos, length)
    ELSE LengthsPush(in, length, LengthsAuto(pk, ConsumeIdentifier(in, pk.pos)))
LengthsLoop(in, pos, length) == LengthsLoopAt(in, Peek(in, pos), length)

\* The match of parse_declaration_lengths on the values, with the left side
\* of three values taken from the first.
SidesOfLeftFromTop(values) ==
    CASE Len(values) = 1 -> Some(<<values[1], values[1], values[1], values[1]>>)
      [] Len(values) = 2 -> Some(<<values[1], values[2], values[1], values[2]>>)
      [] Len(values) = 3 -> Some(<<values[1], values[2], values[3], values[1]>>)
      [] Len(values) = 4 -> Some(<<values[1], values[2], values[3], values[4]>>)
      [] OTHER -> None

\* The match of parse_declaration_lengths on the values: (top, right, bottom,
\* left), or None where the code panics.
SidesOf(values) ==
    CASE Len(values) = 1 -> Some(<<values[1], values[1], values[1], values[1]>>)
      [] Len(values) = 2 -> Some(<<values[1], values[2], values[1], values[2]>>)
      [] Len(values) = 3 -> Some(<<values[1], values[2], values[3], values[2]>>)
      [] Len(values) = 4 -> Some(<<values[1], values[2], values[3], values[4]>>)
      [] OTHER -> None

\* fn parse_declaration_lengths: the loop, the ';', the match.  The values
\* read are returned with the sides.
LengthsMatch(values, semi, sides) ==
    IF sides = None THEN Panic(semi.pos)
    ELSE Ok(semi.pos, [sides |-> sides[1], values |-> values])
LengthsSemicolon(values, semi) ==
    IF semi.status # "ok" THEN semi
    ELSE LengthsMatch(values, semi, SidesOf(values))
LengthsAfterLoop(in, loop) ==
    IF loop.status # "ok" THEN loop
    ELSE LengthsSemicolon(loop.val, SkipNextCh(in, loop.pos, ";"))
ParseDeclarationLengths(in, pos) ==
    LengthsAfterLoop(in, LengthsLoop(in, pos, << >>))

\* The four directional declarations of a shorthand, top, right, bottom, left.
Directional(names, sides) ==
    <<NewDeclaration(names[1], LengthValue(sides[1])),
      NewDeclaration(names[2], LengthValue(sides[2])),
      NewDeclaration(names[3], LengthValue(sides[3])),
      NewDeclaration(names[4], LengthValue(sides[4]))>>
DirectionalOf(names, l) ==
    IF l.status # "ok" THEN l ELSE Ok(l.pos, Directional(names, l.val.sides))

\* A shorthand kept as one declaration of the shorthand property.
ParseDeclarationMarginKept(in, pos) ==
    LET l == ParseDeclarationLengths(in, pos)
    IN  IF l.status # "ok" THEN l
        ELSE Ok(l.pos, <<NewDeclaration("Margin", LengthValue(l.val.sides[1]))>>)

\* fn parse_declaration_margin
ParseDeclarationMargin(in, pos) ==
    DirectionalOf(<<"MarginTop", "MarginRight", "MarginBottom", "MarginLeft">>,
                  ParseDeclarationLengths(in, pos))

\* fn parse_declaration_padding
ParseDeclarationPadding(in, pos) ==
    DirectionalOf(<<"PaddingTop", "PaddingRight", "PaddingBottom", "PaddingLeft">>,
                  ParseDeclarationLengths(in, pos))

\* fn parse_declarations
ParseDeclarations(in, pos, property) ==
    CASE property = "Margin" -> ParseDeclarationMargin(in, pos)
      [] property = "Padding" -> ParseDeclarationPadding(in, pos)
      [] OTHER -> Panic(pos)

\* fn parse_declaration_display
DisplayDeclaration(c) ==
    Ok(c.pos, NewDeclaration("Display", DisplayValue(DisplayFrom(c.text))))
ParseDeclarationDisplay(in, pos) == DisplayDeclaration(ConsumeIdentifier(in, pos))

\* fn parse_declaration_color: next(), then r, g, b by consume_hex(2), then a
\* by consume_hex(2) when a letter or a digit follows, else 0
ColorDeclarationSwapped(property, r, g, b, a) ==
    Ok(a.pos, NewDeclaration(property, ColorValue(b.val, g.val, r.val, a.val)))
ColorDeclaration(property, r, g, b, a) ==
    Ok(a.pos, NewDeclaration(property, ColorValue(r.val, g.val, b.val, a.val)))
ColorAlpha(in, property, r, g, b, ch) ==
    IF ch # None /\ ch[1] \in AlphaNumeric
    THEN ColorDeclaration(property, r, g, b, ConsumeHex(in, b.pos, 2))
    ELSE ColorDeclaration(property, r, g, b, [pos |-> b.pos, val |-> 0])
ColorBlue(in, property, r, g, b) ==
    ColorAlpha(in, property, r, g, b, InputPeek(in, b.pos))
ColorGreen(in, property, r, g) ==
    ColorBlue(in, property, r, g, ConsumeHex(in, g.pos, 2))
ColorRed(in, property, r) == ColorGreen(in, property, r, ConsumeHex(in, r.pos, 2))
ParseDeclarationColor(in, pos, property) ==
    ColorRed(in, property, ConsumeHex(in, NextChar(in, pos), 2))

\* fn parse_declaration_other
OtherDeclaration(property, c) ==
    Ok(c.pos, NewDeclaration(property, OtherValue(c.text)))
ParseDeclarationOther(in, pos, property) ==
    OtherDeclaration(property, ConsumeIdentifier(in, pos))

LengthProperties ==
    {"MarginLeft", "MarginRight", "MarginTop", "MarginBottom", "PaddingLeft",
     "PaddingRight", "PaddingTop", "PaddingBottom", "Width", "Height",
     "BorderRadius"}

\* fn parse_declaration: the match on the property, then skip_next_ch(';')
DeclarationEnd(decl, semi) ==
    IF semi.status # "ok" THEN semi ELSE Ok(semi.pos, decl.val)
DeclarationSemicolon(in, decl) ==
    IF decl.status # "ok" THEN decl
    ELSE DeclarationEnd(decl, SkipNextCh(in, decl.pos, ";"))
DeclarationMatch(in, pos, property) ==
    CASE property \in LengthProperties -> ParseDeclarationLength(in, pos, property)
      [] property \in {"Color", "BackgroundColor"} ->
            ParseDeclarationColor(in, pos, property)
      [] property = "Display" -> ParseDeclarationDisplay(in, pos)
      [] property \in {"Margin", "Padding"} -> Panic(pos)
      [] OTHER -> ParseDeclarationOther(in, pos, property)
ParseDeclaration(in, pos, property) ==
    DeclarationSemicolon(in, DeclarationMatch(in, pos, property))

RECURSIVE ParseOneSelector(_, _)
RECURSIVE ParseClassSelector(_, _, _)
RECURSIVE ParseSiblingSelector(_, _, _)

\* fn parse_one_selector
OneSelectorTag(in, c) ==
    ParseClassSelector(in, c.pos, Some(Tag(TagFrom(c.text))))
OneSelectorAt(in, pk) ==
    IF pk.ch # None /\ pk.ch[1] \in AlphaNumeric
    THEN OneSelectorTag(in, ConsumeIdentifier(in, pk.pos))
    ELSE ParseClassSelector(in, pk.pos, None)
ParseOneSelector(in, pos) == OneSelectorAt(in, Peek(in, pos))

\* fn parse_class_selector
ClassSelectorClass(in, left, c) ==
    ParseSiblingSelector(in, c.pos, Some(Class(left, c.text)))
ClassSelectorId(in, left, c) ==
    ParseSiblingSelector(in, c.pos, Some(Id(left, c.text)))
\* The match of parse_class_selector, but with an absent selector read as a tag
\* with no name where the code unwraps it.
ClassSelectorAtLenient(in, pk, left) ==
    IF pk.ch = Some(".")
    THEN ClassSelectorClass(in, left, ConsumeIdentifier(in, pk.pos + 1))
    ELSE IF pk.ch = Some("#")
    THEN ClassSelectorId(in, left, ConsumeIdentifier(in, pk.pos + 1))
    ELSE IF pk.ch \in {Some("+"), Some(">")}
    THEN ParseSiblingSelector(in, pk.pos, left)
    ELSE IF left = None THEN Ok(pk.pos, Tag(TagFrom(""))) ELSE Ok(pk.pos, left[1])
ClassSelectorAt(in, pk, left) ==
    IF pk.ch = Some(".")
    THEN ClassSelectorClass(in, left, ConsumeIdentifier(in, pk.pos + 1))
    ELSE IF pk.ch = Some("#")
    THEN ClassSelectorId(in, left, ConsumeIdentifier(in, pk.pos + 1))
    ELSE IF pk.ch \in {Some("+"), Some(">")}
    THEN ParseSiblingSelector(in, pk.pos, left)
    ELSE IF left = None THEN Panic(pk.pos) ELSE Ok(pk.pos, left[1])
ParseClassSelector(in, pos, left) == ClassSelectorAt(in, Peek(in, pos), left)

\* The combinator put around the left operands: a chain nests to the left.
CombinedLeftNested(ch, l, r) ==
    IF r.kind \in {"Child", "Adjacent"}
    THEN [r EXCEPT !.left = IF ch = ">" THEN Child(l, r.left) ELSE Adjacent(l, r.left)]
    ELSE IF ch = ">" THEN Child(l, r) ELSE Adjacent(l, r)

\* Selector::Child for '>', Selector::Adjacent for '+'
Combined(ch, l, r) == IF ch = ">" THEN Child(l, r) ELSE Adjacent(l, r)

\* fn parse_sibling_selector
SiblingSelectorRight(in, ch, left, right) ==
    IF right.status # "ok" THEN right
    ELSE IF left = None THEN Panic(right.pos)
    ELSE ParseSiblingSelector(in, right.pos,
                              Some(Combined(ch, left[1], right.val)))
ParseSiblingSelector(in, pos, left) ==
    IF InputPeek(in, pos) \in {Some(">"), Some("+")}
    THEN SiblingSelectorRight(in, in[pos], left, ParseOneSelector(in, pos + 1))
    ELSE IF left = None THEN Panic(pos) ELSE Ok(pos, left[1])

\* fn parse_selector
SelectorComma(in, s) ==
    IF s.status # "ok" THEN s
    ELSE IF InputPeek(in, s.pos) = Some(",") THEN Ok(s.pos + 1, s.val)
    ELSE s
ParseSelector(in, pos) == SelectorComma(in, ParseOneSelector(in, pos))

\* The selector loop of parse_rule.
RECURSIVE SelectorsLoop(_, _, _)
SelectorsPush(in, selectors, s) ==
    IF s.status # "ok" THEN s
    ELSE SelectorsLoop(in, s.pos, Append(selectors, s.val))
SelectorsLoopAt(in, pk, selectors) ==
    IF pk.ch = None THEN Panic(pk.pos)
    ELSE IF pk.ch[1] = "{" THEN Ok(pk.pos + 1, selectors)
    ELSE SelectorsPush(in, selectors, ParseSelector(in, pk.pos))
SelectorsLoop(in, pos, selectors) == SelectorsLoopAt(in, Peek(in, pos), selectors)

\* The declaration loop of parse_rule.
RECURSIVE DeclarationsLoop(_, _, _)
DeclarationsExtend(in, declarations, ds) ==
    IF ds.status # "ok" THEN ds
    ELSE DeclarationsLoop(in, ds.pos, declarations \o ds.val)
DeclarationsPush(in, declarations, dc) ==
    IF dc.status # "ok" THEN dc
    ELSE DeclarationsLoop(in, dc.pos, Append(declarations, dc.val))
DeclarationsValue(in, declarations, property, colon) ==
    IF colon.status # "ok" THEN colon
    ELSE IF property \in {"Margin", "Padding"}
    THEN DeclarationsExtend(in, declarations,
                            ParseDeclarations(in, colon.pos, property))
    ELSE DeclarationsPush(in, declarations,
                          ParseDeclaration(in, colon.pos, property))
DeclarationsProperty(in, declarations, name) ==
    DeclarationsValue(in, declarations, PropertyFrom(name.text),
                      SkipNextCh(in, name.pos, ":"))
DeclarationsLoopAt(in, pk, declarations) ==
    IF pk.ch = None THEN Panic(pk.pos)
    ELSE IF pk.ch[1] = "}" THEN Ok(pk.pos + 1, declarations)
    ELSE DeclarationsProperty(in, declarations, ConsumeIdentifier(in, pk.pos))
DeclarationsLoop(in, pos, declarations) ==
    DeclarationsLoopAt(in, Peek(in, pos), declarations)

\* fn parse_rule
RuleOf(ss, ds) ==
    IF ds.status # "ok" THEN ds ELSE Ok(ds.pos, NewRule(ss.val, ds.val))
RuleDeclarations(in, ss) ==
    IF ss.status # "ok" THEN ss
    ELSE RuleOf(ss, DeclarationsLoop(in, ss.pos, << >>))
ParseRule(in, pos) == RuleDeclarations(in, SelectorsLoop(in, pos, << >>))

\* The loop of parse.
RECURSIVE RulesLoop(_, _, _)
RulesPush(in, rules, r) ==
    IF r.status # "ok" THEN r
    ELSE RulesLoop(in, r.pos, Append(rules, r.val))
RulesLoopAt(in, pk, rules) ==
    IF pk.ch = None THEN Ok(pk.pos, rules)
    ELSE RulesPush(in, rules, ParseRule(in, pk.pos))
RulesLoop(in, pos, rules) == RulesLoopAt(in, Peek(in, pos), rules)

\* fn parse
Parse(in) == RulesLoop(in, 1, << >>)

(***************************************************************************)
(* impl fmt::Debug for StyleSheet, Rule, Selector, Declaration,            *)
(* DeclarationValue and Color.  The text written is kept as the sequence   *)
(* of its pieces, every whitespace character a piece of its own.           *)
(***************************************************************************)
\* The names behind ElementTagName::Other and DeclarationProperty::Other in
\* the texts drawn.
OtherNames == {"span", "article", "zoom"}

\* Display of a usize, and of an f32 (10 for 10.0, 0.5 for 0.5)
RECURSIVE UsizeString(_)
UsizeString(n) ==
    IF n < 10 THEN DigitOrder[n + 1]
    ELSE UsizeString(n \div 10) \o DigitOrder[(n % 10) + 1]
F32String(x) ==
    IF x.frac = << >> THEN UsizeString(x.int)
    ELSE UsizeString(x.int) \o "." \o Str(x.frac)

\* impl fmt::Display for ElementTagName: the derived Debug in lower case
TagDisplay(tag) ==
    CASE tag = "Html" -> "html"
      [] tag = "Main" -> "main"
      [] tag = "Div" -> "div"
      [] tag = "Head" -> "head"
      [] tag = "Meta" -> "meta"
      [] tag = "Body" -> "body"
      [] tag = "Title" -> "title"
      [] tag = "Script" -> "script"
      [] tag = "Style" -> "style"
      [] tag = "Article" -> "article"
      [] tag = "P" -> "p"
      [] tag = "H1" -> "h1"
      [] tag = "H2" -> "h2"
      [] tag = "H3" -> "h3"
      [] tag = "A" -> "a"
      [] OTHER -> "other(\"" \o (CHOOSE n \in OtherNames : OtherTag(n) = tag) \o "\")"

\* impl fmt::Debug for Selector
RECURSIVE DebugSelector(_)
DebugSelector(sel) ==
    CASE sel.kind = "Tag" -> <<TagDisplay(sel.tag_name)>>
      [] sel.kind = "Class" /\ sel.left # None ->
            DebugSelector(sel.left[1]) \o <<".", sel.name>>
      [] sel.kind = "Class" /\ sel.left = None -> <<".", sel.name>>
      [] sel.kind = "Id" /\ sel.left # None ->
            DebugSelector(sel.left[1]) \o <<"#", sel.name>>
      [] sel.kind = "Id" /\ sel.left = None -> <<"#", sel.name>>
      [] sel.kind = "Child" ->
            DebugSelector(sel.left) \o <<" ", ">", " ">> \o DebugSelector(sel.right)
      [] sel.kind = "Adjacent" ->
            DebugSelector(sel.left) \o <<" ", "+", " ">> \o DebugSelector(sel.right)

\* The derived Debug of DeclarationProperty: the name of the variant, and
\* Other("name") for DeclarationProperty::Other
DebugProperty(property) ==
    IF \E n \in OtherNames : OtherProperty(n) = property
    THEN "Other(\"" \o (CHOOSE n \in OtherNames : OtherProperty(n) = property) \o "\")"
    ELSE property

\* The body of the loop over the lengths: "{}[{:?}] " or "auto "
DebugLength(len) ==
    IF len.kind = "Actual"
    THEN <<F32String(len.value), "[", len.unit, "]", " ">>
    ELSE <<"auto", " ">>

\* impl fmt::Debug for Color
DebugColor(c) ==
    <<"r:", " ", UsizeString(c.r), " ", "g:", " ", UsizeString(c.g), " ",
      "b:", " ", UsizeString(c.b), " ", "a:", " ", UsizeString(c.a)>>

\* impl fmt::Debug for DeclarationValue.  The Length arm loops over a Vec of
\* lengths; the parser puts one length in a declaration, and the loop body
\* is run on it.
DebugValue(value) ==
    CASE value.kind = "Color" -> DebugColor(value)
      [] value.kind = "Length" -> DebugLength(value.length)
      [] value.kind = "Display" -> <<value.display>>
      [] value.kind = "Other" -> <<"\"" \o value.text \o "\"">>

\* impl fmt::Debug for Declaration: "{:?}: {:?}"
DebugDeclaration(declaration) ==
    <<DebugProperty(declaration.property), ":", " ">> \o DebugValue(declaration.value)

\* The selectors of a rule from the i-th on, ", " between them.
RECURSIVE DebugSelectors(_, _)
DebugSelectors(selectors, i) ==
    IF i > Len(selectors) THEN << >>
    ELSE (IF i > 1 THEN <<",", " ">> ELSE << >>)
           \o DebugSelector(selectors[i]) \o DebugSelectors(selectors, i + 1)

\* The declarations of a rule from the i-th on, each after a tab and before
\* a newline.
RECURSIVE DebugDeclarations(_, _)
DebugDeclarations(declarations, i) ==
    IF i > Len(declarations) THEN << >>
    ELSE <<"\t">> \o DebugDeclaration(declarations[i]) \o <<"\n">>
           \o DebugDeclarations(declarations, i + 1)

\* impl fmt::Debug for Rule: "{} {{\n{}}}"
DebugRule(rule) ==
    DebugSelectors(rule.selectors, 1) \o <<" ", "{", "\n">>
      \o DebugDeclarations(rule.declarations, 1) \o <<"}">>

\* impl fmt::Debug for StyleSheet: the rules, "\n\n" between them.
RECURSIVE DebugRules(_, _)
DebugRules(rules, i) ==
    IF i > Len(rules) THEN << >>
    ELSE (IF i > 1 THEN <<"\n", "\n">> ELSE << >>)
           \o DebugRule(rules[i]) \o DebugRules(rules, i + 1)
DebugStyleSheet(style_sheet) == DebugRules(style_sheet, 1)

(***************************************************************************)
(* DocumentObjectParser (src/parser/src/dom/mod.rs).  Its consume,         *)
(* consume_identifier, skip_whitespace, bump and peek are the code of the  *)
(* stylesheet parser's functions of the same names, and are modelled by    *)
(* the same operators.  A result is Ok with the cursor and the value,      *)
(* Panic, or Hang when a loop goes round without changing the cursor.      *)
(***************************************************************************)
\* The characters the texts drawn are written with.
HtmlChars ==
    AlphaNumeric \cup Whitespace \cup {"<", ">", "/", "!", "-", "=", "\"", "_"}

\* 'a'..='z' | 'A'..='Z'
Letters == LowerLetters \cup UpperLetters

EndTagNode == [kind |-> "EndTag"]

\* impl From<&str> for NodeKey
KeyFrom(key) ==
    CASE key = "id" -> "Id"
      [] key = "class" -> "Class"
      [] key = "href" -> "Href"
      [] OTHER -> "Other(" \o key \o ")"

\* derive(Ord) of NodeKey: the variants in the order of their declaration.
\* Two Other keys are ordered by their strings; the texts drawn hold at most
\* one Other key in an element.
KeyRank(key) ==
    CASE key = "Id" -> 1
      [] key = "Class" -> 2
      [] key = "Href" -> 3
      [] OTHER -> 4

\* BTreeMap::insert: the value of a key that is present is replaced, and a
\* new key takes its place in the order of the keys.
BTreeInsert(m, key, value) ==
    IF \E i \in 1..Len(m) : m[i][1] = key
    THEN [i \in 1..Len(m) |-> IF m[i][1] = key THEN <<key, value>> ELSE m[i]]
    ELSE SelectSeq(m, LAMBDA p : KeyRank(p[1]) < KeyRank(key))
           \o << <<key, value>> >>
           \o SelectSeq(m, LAMBDA p : KeyRank(p[1]) >= KeyRank(key))

\* ElementAttributes::from_iter
RECURSIVE FromIter(_, _)
FromIter(pairs, m) ==
    IF pairs = << >> THEN m
    ELSE FromIter(Tail(pairs), BTreeInsert(m, Head(pairs)[1], Head(pairs)[2]))

\* fn skip_next_ch of the DOM parser: whitespace is skipped first
DomSkipNextCh(in, pos, ch) == SkipNextCh(in, SkipWhitespace(in, pos), ch)

\* fn skip_next_str
RECURSIVE SkipStr(_, _, _)
SkipStr(in, pos, s) ==
    IF s = << >> THEN Ok(pos, None)
    ELSE IF pos <= Len(in) /\ in[pos] = Head(s)
    THEN SkipStr(in, pos + 1, Tail(s))
    ELSE Panic(pos)
SkipNextStr(in, pos, s) == SkipStr(in, SkipWhitespace(in, pos), s)

\* str::trim_end
RECURSIVE TrimEnd(_)
TrimEnd(chars) ==
    IF chars # << >> /\ chars[Len(chars)] \in Whitespace
    THEN TrimEnd(SubSeq(chars, 1, Len(chars) - 1))
    ELSE chars

\* str::replace("\n", " ")
ReplaceNewlines(chars) ==
    [i \in 1..Len(chars) |-> IF chars[i] = "\n" THEN " " ELSE chars[i]]

\* fn consume_text
TextOf(c) == [pos |-> c.pos, text |-> Str(ReplaceNewlines(TrimEnd(c.chars)))]
ConsumeText(in, pos) == TextOf(Consume(in, pos, HtmlChars \ {"<", ">"}))

\* fn consume_string
StringClosed(c, quote) ==
    IF quote.status # "ok" THEN quote ELSE Ok(quote.pos, Str(c.chars))
StringBody(in, c) == StringClosed(c, DomSkipNextCh(in, c.pos, "\""))
StringOpened(in, quote) ==
    IF quote.status # "ok" THEN quote
    ELSE StringBody(in, Consume(in, quote.pos, HtmlChars \ {"\""}))
ConsumeString(in, pos) == StringOpened(in, DomSkipNextCh(in, pos, "\""))

\* fn parse_comment
CommentClosed(c, close) ==
    IF close.status # "ok" THEN close
    ELSE Ok(close.pos, CommentNode(Str(c.chars)))
CommentBody(in, c) == CommentClosed(c, SkipNextStr(in, c.pos, <<"-", "-", ">">>))
CommentOpened(in, open) ==
    IF open.status # "ok" THEN open
    ELSE CommentBody(in, Consume(in, open.pos, HtmlChars \ {"-"}))
ParseComment(in, pos) == CommentOpened(in, SkipNextStr(in, pos, <<"!", "-", "-">>))

\* fn skip_next_end_tag: everything up to '>' is dropped, whatever name it
\* holds, and the '>' is skipped
EndTagOf(gt) == IF gt.status # "ok" THEN gt ELSE Ok(gt.pos, EndTagNode)
SkipNextEndTagAt(in, c) == DomSkipNextCh(in, c.pos, ">")
SkipNextEndTag(in, pos) ==
    SkipNextEndTagAt(in, Consume(in, pos, HtmlChars \ {">"}))

\* fn parse_element_attributes
RECURSIVE AttributesLoop(_, _, _)
AttributePush(in, key, value, attributes) ==
    IF value.status # "ok" THEN value
    ELSE AttributesLoop(in, value.pos,
                        Append(attributes, <<KeyFrom(key.text), value.val>>))
AttributeValue(in, key, eq, attributes) ==
    IF eq.status # "ok" THEN eq
    ELSE AttributePush(in, key, ConsumeString(in, eq.pos), attributes)
AttributeKey(in, key, attributes) ==
    AttributeValue(in, key, DomSkipNextCh(in, key.pos, "="), attributes)
AttributesLoopAt(in, p, attributes) ==
    IF p.ch = None THEN Panic(p.pos)
    ELSE IF p.ch[1] \in {"/", ">"} THEN Ok(p.pos, FromIter(attributes, << >>))
    ELSE AttributeKey(in, ConsumeIdentifier(in, p.pos), attributes)
AttributesLoop(in, pos, attributes) ==
    AttributesLoopAt(in, Peek(in, pos), attributes)
ParseElementAttributes(in, pos) == AttributesLoop(in, pos, << >>)

RECURSIVE ParseNode(_, _)

\* fn parse_children: the loop ends at the first EndTag parse_node returns.
\* parse_node is a function of the cursor alone, so an iteration that pushes
\* a node and leaves the cursor where it was is repeated without end.
RECURSIVE ChildrenLoop(_, _, _)
ChildrenPush(in, pos, node, children) ==
    IF node.status # "ok" THEN node
    ELSE IF node.val = EndTagNode THEN Ok(node.pos, children)
    ELSE IF node.pos = pos THEN Hang(pos)
    ELSE ChildrenLoop(in, node.pos, Append(children, node.val))
ChildrenLoop(in, pos, children) ==
    ChildrenPush(in, pos, ParseNode(in, pos), children)
ParseChildren(in, pos) == ChildrenLoop(in, pos, << >>)

\* fn parse_element (parse_element_tag is consume_identifier and From<&str>)
ElementOf(tag_name, attributes, children) ==
    IF children.status # "ok" THEN children
    ELSE Ok(children.pos, NewElement(tag_name, attributes.val, children.val))
ElementOpened(in, tag_name, attributes, gt) ==
    IF gt.status # "ok" THEN gt
    ELSE ElementOf(tag_name, attributes, ParseChildren(in, gt.pos))
ElementSelfClosed(tag_name, attributes, close) ==
    IF close.status # "ok" THEN close
    ELSE Ok(close.pos, NewElement(tag_name, attributes.val, << >>))
ElementChildrenAt(in, tag_name, attributes, p) ==
    IF p.ch = Some("/")
    THEN ElementSelfClosed(tag_name, attributes,
                           SkipNextStr(in, p.pos, <<"/", ">">>))
    ELSE IF p.ch = Some(">")
    THEN ElementOpened(in, tag_name, attributes, DomSkipNextCh(in, p.pos, ">"))
    ELSE Panic(p.pos)
ElementChildren(in, tag_name, attributes) ==
    IF attributes.status # "ok" THEN attributes
    ELSE ElementChildrenAt(in, tag_name, attributes, Peek(in, attributes.pos))
ElementAttributesAt(in, tag_name, p) ==
    IF p.ch = Some(">") THEN ElementChildren(in, tag_name, Ok(p.pos, << >>))
    ELSE IF p.ch # None /\ p.ch[1] \in Letters
    THEN ElementChildren(in, tag_name, ParseElementAttributes(in, p.pos))
    ELSE Panic(p.pos)
ElementTagged(in, tag) ==
    ElementAttributesAt(in, TagFrom(tag.text), Peek(in, tag.pos))
ParseElement(in, pos) == ElementTagged(in, ConsumeIdentifier(in, pos))

\* fn parse_node
TextNodeOf(c) == Ok(c.pos, TextNode(c.text))
NodeAfterBump(in, p) ==
    IF p.ch = Some("!") THEN ParseComment(in, p.pos)
    ELSE IF p.ch # None /\ p.ch[1] \in Letters THEN ParseElement(in, p.pos)
    ELSE IF p.ch = Some("/") THEN EndTagOf(SkipNextEndTag(in, p.pos))
    ELSE Panic(p.pos)
ParseNodeAt(in, p) ==
    IF p.ch = None THEN Panic(p.pos)
    ELSE IF p.ch = Some("<")
    THEN NodeAfterBump(in, Peek(in, Bump(in, p.pos).pos))
    ELSE TextNodeOf(ConsumeText(in, p.pos))
ParseNode(in, pos) == ParseNodeAt(in, Peek(in, pos))

\* pub fn parse of DocumentObjectParser
DomParse(in) == ParseNode(in, 1)

(***************************************************************************)
(* DOMParser (src/lib/html/dom/mod.rs): the DOM built from a slice of      *)
(* tokens.  The cursor is the place of the next token of the iterator.     *)
(***************************************************************************)
ElementData(tag_name, attributes) ==
    [tag_name |-> tag_name, attributes |-> attributes]
TextToken(s) == [kind |-> "TextToken", text |-> s]
StartTagToken(e) == [kind |-> "StartTagToken", element |-> e]
EndTagToken(tag_name) == [kind |-> "EndTagToken", tag_name |-> tag_name]
SelfClosingTagToken(e) == [kind |-> "SelfClosingTagToken", element |-> e]
CommentToken(s) == [kind |-> "CommentToken", text |-> s]
Eof == [kind |-> "Eof"]
Illegal == [kind |-> "Illegal"]

\* Node::new
NewNode(node_type) == [node_type |-> node_type, children |-> << >>]
ElementType(e) == [kind |-> "Element", element |-> e]
TextType(s) == [kind |-> "Text", text |-> s]
CommentType(s) == [kind |-> "Comment", text |-> s]

\* fn next_token_is
NextTokenIs(tokens, pos, token) == pos <= Len(tokens) /\ tokens[pos] = token

RECURSIVE TokenParseNode(_, _)

\* fn parse_start_tag: the arm None => {} of the loop does nothing, so the
\* loop goes round without end once the iterator is exhausted.
RECURSIVE StartTagLoop(_, _, _, _)
StartTagPush(tokens, end, node, child) ==
    IF child.status # "ok" THEN child
    ELSE StartTagLoop(tokens, child.pos, end,
                      [node EXCEPT !.children = Append(@, child.val)])
StartTagLoop(tokens, pos, end, node) ==
    IF pos > Len(tokens) THEN Hang(pos)
    ELSE IF tokens[pos] = end THEN Ok(pos + 1, node)
    ELSE StartTagPush(tokens, end, node, TokenParseNode(tokens, pos))
ParseStartTag(tokens, pos, element_data) ==
    StartTagLoop(tokens, pos, EndTagToken(element_data.tag_name),
                 NewNode(ElementType(element_data)))

\* fn parse_node of DOMParser (parse_text, parse_self_closing_tag and
\* parse_comment are its three arms that build a childless Node)
TokenParseNode(tokens, pos) ==
    IF pos > Len(tokens) THEN Panic(pos)
    ELSE CASE tokens[pos].kind = "TextToken" ->
                Ok(pos + 1, NewNode(TextType(tokens[pos].text)))
           [] tokens[pos].kind = "StartTagToken" ->
                ParseStartTag(tokens, pos + 1, tokens[pos].element)
           [] tokens[pos].kind = "SelfClosingTagToken" ->
                Ok(pos + 1, NewNode(ElementType(tokens[pos].element)))
           [] tokens[pos].kind = "CommentToken" ->
                Ok(pos + 1, NewNode(CommentType(tokens[pos].text)))
           [] OTHER -> Panic(pos + 1)

\* pub fn parse of DOMParser
RECURSIVE TokenParseLoop(_, _, _)
TokenParsePush(tokens, nodes, node) ==
    IF node.status # "ok" THEN node
    ELSE TokenParseLoop(tokens, node.pos, Append(nodes, node.val))
TokenParseLoop(tokens, pos, nodes) ==
    IF NextTokenIs(tokens, pos, Eof) THEN Ok(pos, nodes)
    ELSE TokenParsePush(tokens, nodes, TokenParseNode(tokens, pos))
TokenParse(tokens) == TokenParseLoop(tokens, 1, << >>)

(***************************************************************************)
(* Inputs of the matcher and of the cascade.                               *)
(***************************************************************************)
AttributesOf(id, class) ==
    (IF id = None THEN << >> ELSE << <<"Id", id[1]>> >>)
      \o (IF class = None THEN << >> ELSE << <<"Class", class[1]>> >>)

MatchTags == {"Div", "P", OtherTag("span")}
ClassNames == {"", "box", "table"}
IdNames == {"", "x"}

\* Childless elements with every combination of tag, class and id attribute.
Elements ==
    {NewElement(t, AttributesOf(i, c), << >>) :
        t \in MatchTags,
        i \in {None, Some("x")},
        c \in {None} \cup {Some(n) : n \in ClassNames}}

SimpleSelectors ==
    {Tag(t) : t \in MatchTags}
      \cup {Class(None, c) : c \in ClassNames}
      \cup {Id(None, i) : i \in IdNames}

RECURSIVE SelectorsOfDepth(_)
SelectorsOfDepth(n) ==
    IF n = 0 THEN SimpleSelectors
    ELSE LET S == SelectorsOfDepth(n - 1)
         IN  S \cup {Class(Some(l), c) : l \in S, c \in ClassNames}
               \cup {Id(Some(l), i) : l \in S, i \in IdNames}
               \cup {Child(l, r) : l \in SimpleSelectors, r \in SimpleSelectors}
               \cup {Adjacent(l, r) : l \in SimpleSelectors, r \in SimpleSelectors}

Selectors == SelectorsOfDepth(MaxSelDepth)

\* The elements the cascade is run on.
CascadeElements ==
    {NewElement("Div", << >>, << >>),
     NewElement("Div", AttributesOf(None, Some("box")), << >>),
     NewElement("P", AttributesOf(Some("x"), Some("box")), << >>),
     NewElement("P", << >>, << >>)}

SelectorGroups ==
    {<<Tag("Div")>>,
     <<Class(None, "box")>>,
     <<Tag("P"), Class(None, "box")>>,
     <<Class(Some(Tag("Div")), "box"), Tag("Div")>>,
     <<Child(Tag("Div"), Tag("P"))>>}

DeclarationLists ==
    {<<NewDeclaration("Display", DisplayValue("None"))>>,
     <<NewDeclaration("Display", DisplayValue("Block"))>>,
     <<NewDeclaration("Color", ColorValue(170, 17, 255, 0)),
       NewDeclaration("Display", DisplayValue("Inline"))>>,
     <<NewDeclaration("Display", DisplayValue("None")),
       NewDeclaration("Color", ColorValue(0, 0, 0, 0)),
       NewDeclaration("Display", DisplayValue("Flex"))>>}

Rules == {NewRule(g, d) : g \in SelectorGroups, d \in DeclarationLists}

SeqsUpTo(S, n) == UNION {[1..k -> S] : k \in 0..n}

StyleSheets == SeqsUpTo(Rules, MaxRules)

NoElement == NewElement("Div", << >>, << >>)
NoSelector == Tag("Div")
NoSource == << >>
NoResult == [status |-> "none", pos |-> 0, val |-> None]

(***************************************************************************)
(* Spec: the cascade.  An element and a stylesheet are drawn, and          *)
(* get_styles is run on them.                                              *)
(***************************************************************************)
Init ==
    /\ pc = "start"
    /\ element \in CascadeElements
    /\ sheet \in StyleSheets
    /\ selector = NoSelector
    /\ matched = FALSE
    /\ styles = EmptyStyleMap
    /\ inserted = << >>
    /\ dom = NoElement
    /\ tree = None
    /\ calls = << >>
    /\ source = NoSource
    /\ input = << >>
    /\ result = NoResult

GetStylesStep ==
    /\ pc = "start"
    /\ pc' = "styled"
    /\ LET run == GetStylesRun(sheet, element)
       IN  /\ styles' = run.styles
           /\ inserted' = run.inserted
    /\ UNCHANGED <<element, selector, matched, sheet, dom, tree, calls,
                   source, input, result>>

Next == GetStylesStep

Spec == Init /\ [][Next]_vars

(***************************************************************************)
(* SpecMatch: the matcher.  An element and a selector are drawn, and       *)
(* matches is run on them.                                                 *)
(***************************************************************************)
InitMatch ==
    /\ pc = "start"
    /\ element \in Elements
    /\ selector \in Selectors
    /\ matched = FALSE
    /\ sheet = << >>
    /\ styles = EmptyStyleMap
    /\ inserted = << >>
    /\ dom = NoElement
    /\ tree = None
    /\ calls = << >>
    /\ source = NoSource
    /\ input = << >>
    /\ result = NoResult

MatchStep ==
    /\ pc = "start"
    /\ pc' = "matched"
    /\ matched' = Matches(selector, element)
    /\ UNCHANGED <<element, selector, sheet, styles, inserted, dom, tree, calls,
                   source, input, result>>

NextMatch == MatchStep

SpecMatch == InitMatch /\ [][NextMatch]_vars

(***************************************************************************)
(* Vocabulary of the cascade claims.                                       *)
(***************************************************************************)
\* At least one selector of the rule's group matches the element.
RuleMatches(rule, e) ==
    \E si \in 1..Len(rule.selectors) : Matches(rule.selectors[si], e)

Declares(rule, p) ==
    \E di \in 1..Len(rule.declarations) : rule.declarations[di].property = p

SetMax(S) == CHOOSE x \in S : \A y \in S : y <= x

\* The value of the last declaration of p in the rule.
LastDeclared(rule, p) ==
    rule.declarations[
        SetMax({di \in 1..Len(rule.declarations) :
                    rule.declarations[di].property = p})].value

\* The rules that match the element and declare p.
Winners(stylesheet, e, p) ==
    {ri \in 1..Len(stylesheet) :
        RuleMatches(stylesheet[ri], e) /\ Declares(stylesheet[ri], p)}

AllProperties ==
    {"Display", "Color"}

\* C1: whenever one or more rules match the element and declare a property,
\* the resolved value of the property is the one declared last: by the last
\* such rule in stylesheet order and, inside it, by its last declaration of
\* the property.
CascadeLastWins ==
    pc = "styled" =>
        \A p \in AllProperties :
            Winners(sheet, element, p) # {} =>
                /\ p \in DOMAIN styles
                /\ styles[p] =
                      LastDeclared(sheet[SetMax(Winners(sheet, element, p))], p)

\* Two rules match through selectors of different shapes and declare display
\* with different values; the later one's value is the resolved one.
CascadeLastWinsWitness ==
    /\ pc = "styled"
    /\ Len(sheet) = 2
    /\ Winners(sheet, element, "Display") = {1, 2}
    /\ sheet[1].selectors[1].kind = "Class"
    /\ sheet[2].selectors[1].kind = "Tag"
    /\ LastDeclared(sheet[1], "Display") # LastDeclared(sheet[2], "Display")
    /\ Len(sheet[2].declarations) = 3
    /\ styles["Display"] = DisplayValue("Flex")

\* The insert calls made for rule ri, in call order.
InsertsOf(ri) == SelectSeq(inserted, LAMBDA c : c[1] = ri)

\* C2: a rule contributes if and only if one of its selectors matches the
\* element: then each of its declarations is inserted exactly once, otherwise
\* none is; the keys of the map are the properties of the matching rules.
RuleContributesIffMatches ==
    pc = "styled" =>
        /\ \A ri \in 1..Len(sheet) :
              IF RuleMatches(sheet[ri], element)
              THEN InsertsOf(ri) =
                      [di \in 1..Len(sheet[ri].declarations) |-> <<ri, di>>]
              ELSE InsertsOf(ri) = << >>
        /\ DOMAIN styles =
              {p \in AllProperties :
                  \E ri \in 1..Len(sheet) :
                      RuleMatches(sheet[ri], element) /\ Declares(sheet[ri], p)}

\* A rule with two selectors that both match the element and a rule that does
\* not match it: the first inserted its declarations once, the second none.
RuleContributesWitness ==
    /\ pc = "styled"
    /\ Len(sheet) = 2
    /\ Len(sheet[1].selectors) = 2
    /\ \A si \in 1..2 : Matches(sheet[1].selectors[si], element)
    /\ ~RuleMatches(sheet[2], element)
    /\ Declares(sheet[2], "Color")
    /\ Len(inserted) = 1
    /\ DOMAIN styles = {"Display"}

(***************************************************************************)
(* Vocabulary of the matcher claims.                                       *)
(***************************************************************************)
HasAttribute(e, key) ==
    \E i \in 1..Len(e.attributes) : e.attributes[i][1] = key

\* The element's attribute equals v, an absent attribute being read as the
\* empty string (section 4.3 of the specification).
AttributeEquals(e, key, v) ==
    \/ \E i \in 1..Len(e.attributes) : e.attributes[i] = <<key, v>>
    \/ (~HasAttribute(e, key) /\ v = "")

IsCompound(sel) == sel.kind \in {"Class", "Id"} /\ sel.left # None
IsBare(sel) == sel.kind \in {"Class", "Id"} /\ sel.left = None
KeyOf(sel) == IF sel.kind = "Class" THEN "Class" ELSE "Id"

\* C9: a compound selector Class(Some(left), c) or Id(Some(left), i) matches
\* an element exactly when left matches that same element and the element's
\* class (id) attribute equals c (i); div.box matches a div of class box and
\* matches neither a span of class box nor a div of class table.
CompoundIsConjunction ==
    pc = "matched" =>
        /\ IsCompound(selector) =>
              (matched <=>
                  /\ Matches(selector.left[1], element)
                  /\ AttributeEquals(element, KeyOf(selector), selector.name))
        /\ selector = Class(Some(Tag("Div")), "box") =>
              (matched <=>
                  /\ element.tag_name = "Div"
                  /\ \E i \in 1..Len(element.attributes) :
                        element.attributes[i] = <<"Class", "box">>)

\* div.box was matched against a span of class box: the class is equal, the
\* left selector does not match, and the result is false.
CompoundIsConjunctionWitness ==
    /\ pc = "matched"
    /\ selector = Class(Some(Tag("Div")), "box")
    /\ element.tag_name = OtherTag("span")
    /\ AttributeEquals(element, "Class", "box")
    /\ ~matched

\* C10: an element with no class attribute is matched by no bare class
\* selector, whatever the class name, the empty name included; likewise an
\* element with no id attribute and the bare id selectors.
BareSelectorNeedsAttribute ==
    pc = "matched" =>
        ((IsBare(selector) /\ ~HasAttribute(element, KeyOf(selector)))
            => ~matched)

\* The rightmost simple or compound selector of a selector: the right operand
\* of its combinators, followed to the end.
RECURSIVE Rightmost(_)
Rightmost(sel) ==
    IF sel.kind \in {"Child", "Adjacent"} THEN Rightmost(sel.right) ELSE sel

\* C11: Child(l, r) and Adjacent(l, r) match an element exactly when the
\* rightmost simple or compound selector of r matches it, whatever l is; so
\* `div > p` matches every p element.
CombinatorMatchesAsRightmost ==
    pc = "matched" =>
        (selector.kind \in {"Child", "Adjacent"} =>
            (matched <=> Matches(Rightmost(selector), element)))

(***************************************************************************)
(* SpecRender: the render tree.  A DOM of three levels and a stylesheet    *)
(* are drawn, and build is run on the root.                                *)
(***************************************************************************)
LeafNodes ==
    {TextNode("x"),
     NewElement("P", << >>, << >>),
     NewElement("Div", AttributesOf(None, Some("box")), << >>),
     NewElement("Script", << >>, << >>)}

MidNodes ==
    {TextNode("x"), CommentNode("c")}
      \cup {NewElement(t, << >>, ch) :
              t \in {"Div", "P", "Meta", "Script"}, ch \in SeqsUpTo(LeafNodes, 1)}

RootNodes ==
    {TextNode("x")}
      \cup {NewElement("Div", a, ch) :
              a \in {<< >>, AttributesOf(None, Some("box"))},
              ch \in SeqsUpTo(MidNodes, MaxChildren)}
      \cup {NewElement("Meta", << >>, ch) : ch \in SeqsUpTo(MidNodes, MaxChildren)}

DisplayRule(group, d) ==
    NewRule(group, <<NewDeclaration("Display", DisplayValue(d))>>)

RenderSheets ==
    {<< >>,
     <<DisplayRule(<<Tag("Div")>>, "None")>>,
     <<DisplayRule(<<Tag("Div")>>, "None"),
       DisplayRule(<<Class(None, "box")>>, "Block")>>,
     <<NewRule(<<Class(None, "box")>>,
               <<NewDeclaration("Display", DisplayValue("Block")),
                 NewDeclaration("Color", ColorValue(170, 17, 255, 34))>>),
       DisplayRule(<<Tag("Div")>>, "None")>>,
     <<DisplayRule(<<Tag("P")>>, "None"),
       NewRule(<<Tag("Div")>>,
               <<NewDeclaration("Color", ColorValue(0, 0, 0, 0))>>)>>,
     <<DisplayRule(<<Tag("P"), Tag("Div"), Tag("Meta")>>, "Inline"),
       DisplayRule(<<Class(Some(Tag("Div")), "box")>>, "None")>>,
     <<DisplayRule(<<Tag("Div")>>, "None"),
       DisplayRule(<<Class(None, "box"), Tag("P")>>, "Block"),
       DisplayRule(<<Tag("P")>>, "None")>>}

InitRender ==
    /\ pc = "start"
    /\ dom \in RootNodes
    /\ sheet \in RenderSheets
    /\ element = NoElement
    /\ selector = NoSelector
    /\ matched = FALSE
    /\ styles = EmptyStyleMap
    /\ inserted = << >>
    /\ tree = None
    /\ calls = << >>
    /\ source = NoSource
    /\ input = << >>
    /\ result = NoResult

BuildStep ==
    /\ pc = "start"
    /\ pc' = "built"
    /\ LET b == Build(dom, << >>, sheet)
       IN  /\ tree' = b.result
           /\ calls' = b.calls
    /\ UNCHANGED <<element, selector, matched, sheet, styles, inserted, dom,
                   source, input, result>>

NextRender == BuildStep

SpecRender == InitRender /\ [][NextRender]_vars

(***************************************************************************)
(* Vocabulary of the render-tree claims.                                   *)
(***************************************************************************)
RECURSIVE NodeAt(_, _)
NodeAt(node, path) ==
    IF path = << >> THEN node ELSE NodeAt(node.children[Head(path)], Tail(path))

RECURSIVE PathsOf(_)
PathsOf(node) ==
    {<< >>} \cup
      (IF node.kind = "Element"
       THEN UNION {{<<i>> \o q : q \in PathsOf(node.children[i])} :
                      i \in 1..Len(node.children)}
       ELSE {})

RECURSIVE ObjectsOf(_)
ObjectsOf(obj) ==
    {obj} \cup UNION {ObjectsOf(obj.children[i]) : i \in 1..Len(obj.children)}

\* Every RenderObject of the built tree.
TreeObjects == IF tree = None THEN {} ELSE ObjectsOf(tree[1])

Called(path) == \E k \in 1..Len(calls) : calls[k] = path

IsElement(node) == node.kind = "Element"

\* The cascade resolves the element's display to None.
ResolvesToNone(node) ==
    LET st == GetStyles(sheet, node)
    IN  "Display" \in DOMAIN st /\ st["Display"] = DisplayValue("None")

NonVisual(node) == IsElement(node) /\ node.tag_name \in {"Meta", "Script"}

Excluded(node) == IsElement(node) /\ (NonVisual(node) \/ ResolvesToNone(node))

ProperPrefixes(path) == {SubSeq(path, 1, k) : k \in 0..(Len(path) - 1)}

\* C3: an element whose resolved display is None yields no RenderObject (the
\* root's build returns None; no object of the tree refers to the element),
\* and build is never called on any of its children.
DisplayNonePrunes ==
    pc = "built" =>
        \A p \in PathsOf(dom) :
            (IsElement(NodeAt(dom, p)) /\ ResolvesToNone(NodeAt(dom, p))) =>
                /\ (p = << >> => tree = None)
                /\ \A obj \in TreeObjects : obj.node # p
                /\ \A i \in 1..Len(NodeAt(dom, p).children) : ~Called(Append(p, i))

\* <div><p>x</p></div> under div { display: none; }: build returned None and
\* was called on the root only.
DisplayNonePrunesWitness ==
    /\ pc = "built"
    /\ dom = NewElement("Div", << >>,
                <<NewElement("P", << >>, <<TextNode("x")>>)>>)
    /\ sheet = <<DisplayRule(<<Tag("Div")>>, "None")>>
    /\ tree = None
    /\ calls = << << >> >>

\* C4: no RenderObject of a built tree refers to a meta or script element.
NoNonVisualInTree ==
    pc = "built" =>
        \A obj \in TreeObjects : ~NonVisual(NodeAt(dom, obj.node))

\* A tree was built from a DOM holding a meta element and, one level lower,
\* a script element under a rendered element.
NoNonVisualInTreeWitness ==
    /\ pc = "built"
    /\ tree # None
    /\ IsElement(dom)
    /\ Len(dom.children) = 2
    /\ dom.children[1].kind = "Element" /\ dom.children[1].tag_name = "Meta"
    /\ dom.children[2].kind = "Element" /\ dom.children[2].tag_name = "Div"
    /\ dom.children[2].children = <<NewElement("Script", << >>, << >>)>>
    /\ \E obj \in TreeObjects : obj.node = <<2>>
    /\ Cardinality(TreeObjects) = 2

\* C5: no RenderObject of a built tree refers to a descendant of an excluded
\* element (meta, script or resolved display None).
ExclusionIsTransitive ==
    pc = "built" =>
        \A obj \in TreeObjects :
            \A q \in ProperPrefixes(obj.node) : ~Excluded(NodeAt(dom, q))

\* A div.box that resolves to display block lies under a div that resolves
\* to None, itself under a rendered root: the tree holds the root alone.
ExclusionIsTransitiveWitness ==
    /\ pc = "built"
    /\ tree # None
    /\ <<1, 1>> \in PathsOf(dom)
    /\ IsElement(NodeAt(dom, <<1>>)) /\ ResolvesToNone(NodeAt(dom, <<1>>))
    /\ Len(dom.children) = 1
    /\ IsElement(NodeAt(dom, <<1, 1>>))
    /\ GetStyles(sheet, NodeAt(dom, <<1, 1>>)) =
          [p \in {"Display"} |-> DisplayValue("Block")]
    /\ Cardinality(TreeObjects) = 1

\* C6: every RenderObject carries the styles of its own node: get_styles of
\* the element for an element; for a text or comment node build always
\* returns a RenderObject, with an empty style map and no children.
ObjectCarriesOwnStyles ==
    pc = "built" =>
        /\ \A obj \in TreeObjects :
              IF IsElement(NodeAt(dom, obj.node))
              THEN obj.styles = GetStyles(sheet, NodeAt(dom, obj.node))
              ELSE obj.styles = EmptyStyleMap /\ obj.children = << >>
        /\ \A p \in PathsOf(dom) :
              (Called(p) /\ ~IsElement(NodeAt(dom, p))) =>
                  \E obj \in TreeObjects : obj.node = p

\* A rendered root with styles of its own holds a rendered child element
\* whose styles differ from the root's, and a text node.
ObjectCarriesOwnStylesWitness ==
    /\ pc = "built"
    /\ tree # None
    /\ tree[1].styles = [p \in {"Display"} |-> DisplayValue("Block")]
    /\ Len(tree[1].children) = 2
    /\ IsElement(NodeAt(dom, <<1>>))
    /\ tree[1].children[1].node = <<1>>
    /\ tree[1].children[1].styles = EmptyStyleMap
    /\ Len(tree[1].children[1].children) = 1
    /\ ~IsElement(NodeAt(dom, <<1, 1>>))
    /\ ~IsElement(NodeAt(dom, <<2>>))

(***************************************************************************)
(* Inputs of the stylesheet parser: texts put together from pieces.        *)
(***************************************************************************)
RECURSIVE Concat(_)
Concat(pieces) ==
    IF pieces = << >> THEN << >> ELSE Head(pieces) \o Concat(Tail(pieces))

\* The pieces with a space between each two.
RECURSIVE JoinBySpace(_)
JoinBySpace(pieces) ==
    IF Len(pieces) <= 1 THEN Concat(pieces)
    ELSE Head(pieces) \o <<" ">> \o JoinBySpace(Tail(pieces))

\* "1em"
TokenOneEm ==
    <<"1", "e", "m">>

\* "2px"
TokenTwoPx ==
    <<"2", "p", "x">>

\* "auto"
TokenAuto ==
    <<"a", "u", "t", "o">>

\* "10"
TokenTen ==
    <<"1", "0">>

\* "0.5em"
TokenHalfEm ==
    <<"0", ".", "5", "e", "m">>

ValueTokens == {TokenOneEm, TokenTwoPx, TokenAuto, TokenTen, TokenHalfEm}

\* What ends the value of the shorthand: the ';', a '}' in its place, or the
\* end of the text.
ValueEnds == {<<";">>, <<"}">>, << >>}

ShorthandSources ==
    {[property |-> p, tokens |-> t, end |-> e] :
        p \in {"Margin", "Padding"},
        t \in SeqsUpTo(ValueTokens, MaxValues),
        e \in ValueEnds}

ShorthandText(src) == JoinBySpace(src.tokens) \o src.end

\* "margin: 1em 2px;"
MarginTwoValues ==
    <<"m", "a", "r", "g", "i", "n", ":", " ", "1", "e", "m", " ", "2", "p",
      "x", ";">>

\* "padding:auto;"
PaddingAuto ==
    <<"p", "a", "d", "d", "i", "n", "g", ":", "a", "u", "t", "o", ";">>

\* "width: 10px;"
WidthTenPx ==
    <<"w", "i", "d", "t", "h", ":", " ", "1", "0", "p", "x", ";">>

\* "display: none;"
DisplayNone ==
    <<"d", "i", "s", "p", "l", "a", "y", ":", " ", "n", "o", "n", "e", ";">>

\* "color: #aa11ff;"
ColorHex ==
    <<"c", "o", "l", "o", "r", ":", " ", "#", "a", "a", "1", "1", "f", "f",
      ";">>

\* "margin-left: auto;"
MarginLeftAuto ==
    <<"m", "a", "r", "g", "i", "n", "-", "l", "e", "f", "t", ":", " ", "a",
      "u", "t", "o", ";">>

\* "zoom: big;"
ZoomBig ==
    <<"z", "o", "o", "m", ":", " ", "b", "i", "g", ";">>

\* "margin: 1em"
MarginNoSemicolon ==
    <<"m", "a", "r", "g", "i", "n", ":", " ", "1", "e", "m">>

\* "width: 10px"
WidthNoSemicolon ==
    <<"w", "i", "d", "t", "h", ":", " ", "1", "0", "p", "x">>

\* "padding: 0 auto;"
PaddingZeroAuto ==
    <<"p", "a", "d", "d", "i", "n", "g", ":", " ", "0", " ", "a", "u", "t",
      "o", ";">>

DeclarationTexts ==
    {MarginTwoValues, PaddingAuto, WidthTenPx, DisplayNone,
     ColorHex, MarginLeftAuto, ZoomBig, MarginNoSemicolon,
     WidthNoSemicolon, PaddingZeroAuto}

\* "div "
SelectorDiv ==
    <<"d", "i", "v", " ">>

\* "div > .table"
SelectorChild ==
    <<"d", "i", "v", " ", ">", " ", ".", "t", "a", "b", "l", "e">>

\* "h1, .a\n"
SelectorGroup ==
    <<"h", "1", ",", " ", ".", "a", "\n">>

\* "div p ": two selectors with no comma between them
SelectorNoComma ==
    <<"d", "i", "v", " ", "p", " ">>

\* "": no selector in front of the '{'
SelectorAbsent == << >>

SelectorTexts ==
    {SelectorDiv, SelectorChild, SelectorGroup, SelectorNoComma, SelectorAbsent}

\* "\np { display: none; }\n"
SecondRule ==
    <<"\n", "p", " ", "{", " ", "d", "i", "s", "p", "l", "a", "y", ":",
      " ", "n", "o", "n", "e", ";", " ", "}", "\n">>

RuleTails == {<< >>, SecondRule}

RuleSources ==
    {[selectors |-> g, decls |-> d, tail |-> t] :
        g \in SelectorTexts,
        d \in SeqsUpTo(DeclarationTexts, MaxDecls),
        t \in RuleTails}

RuleText(src) ==
    src.selectors \o <<"{">> \o JoinBySpace(src.decls) \o <<"}">> \o src.tail

(***************************************************************************)
(* SpecShorthand: the value of a margin or padding shorthand is drawn and  *)
(* parse_declarations is run on it, as test_parse_declarations does.       *)
(***************************************************************************)
InitShorthand ==
    /\ pc = "start"
    /\ source \in ShorthandSources
    /\ input = ShorthandText(source)
    /\ result = NoResult
    /\ element = NoElement
    /\ selector = NoSelector
    /\ matched = FALSE
    /\ sheet = << >>
    /\ styles = EmptyStyleMap
    /\ inserted = << >>
    /\ dom = NoElement
    /\ tree = None
    /\ calls = << >>

ParseDeclarationsStep ==
    /\ pc = "start"
    /\ pc' = "parsed"
    /\ result' = ParseDeclarations(input, 1, source.property)
    /\ UNCHANGED <<element, selector, matched, sheet, styles, inserted, dom,
                   tree, calls, source, input>>

NextShorthand == ParseDeclarationsStep

SpecShorthand == InitShorthand /\ [][NextShorthand]_vars

(***************************************************************************)
(* SpecCss: a stylesheet text is drawn and parse is run on it.             *)
(***************************************************************************)
InitCss ==
    /\ pc = "start"
    /\ source \in RuleSources
    /\ input = RuleText(source)
    /\ result = NoResult
    /\ element = NoElement
    /\ selector = NoSelector
    /\ matched = FALSE
    /\ sheet = << >>
    /\ styles = EmptyStyleMap
    /\ inserted = << >>
    /\ dom = NoElement
    /\ tree = None
    /\ calls = << >>

ParseStep ==
    /\ pc = "start"
    /\ pc' = "parsed"
    /\ result' = Parse(input)
    /\ UNCHANGED <<element, selector, matched, sheet, styles, inserted, dom,
                   tree, calls, source, input>>

\* format!("{:?}", style_sheet) on the StyleSheet parse returned.
FormatStep ==
    /\ pc = "parsed"
    /\ result.status = "ok"
    /\ pc' = "formatted"
    /\ result' = [status |-> "ok", pos |-> result.pos, val |-> result.val,
                  debug |-> DebugStyleSheet(result.val)]
    /\ UNCHANGED <<element, selector, matched, sheet, styles, inserted, dom,
                   tree, calls, source, input>>

NextCss == ParseStep \/ FormatStep

SpecCss == InitCss /\ [][NextCss]_vars

(***************************************************************************)
(* Vocabulary of the shorthand claims.                                     *)
(***************************************************************************)
\* The Vec of lengths the loop of parse_declaration_lengths read.
ParsedValues == LengthsLoop(input, 1, << >>).val

\* The length of the k-th declaration returned (1 top, 2 right, 3 bottom,
\* 4 left).
Side(k) == result.val[k].value.length

SideNames(property) ==
    IF property = "Margin"
    THEN <<"MarginTop", "MarginRight", "MarginBottom", "MarginLeft">>
    ELSE <<"PaddingTop", "PaddingRight", "PaddingBottom", "PaddingLeft">>

\* The length a value token stands for when it is read on its own.
TokenLength(token) ==
    CASE token = TokenOneEm -> Actual(Number(1, << >>), "Em")
      [] token = TokenTwoPx -> Actual(Number(2, << >>), "Px")
      [] token = TokenAuto -> Auto
      [] token = TokenTen -> Actual(Number(10, << >>), "Px")
      [] token = TokenHalfEm -> Actual(Number(0, <<"5">>), "Em")

\* C7: the four sides of a margin/padding shorthand follow the 1/2/3/4-value
\* rule on the values parsed: one value is all four sides; two are top=bottom
\* and right=left; three are top, right=left, bottom; four are top, right,
\* bottom, left.
ShorthandFollowsValueRule ==
    (pc = "parsed" /\ result.status = "ok") =>
        LET v == ParsedValues
        IN  /\ Len(result.val) = 4
            /\ \A k \in 1..4 :
                  /\ result.val[k].property = SideNames(source.property)[k]
                  /\ result.val[k].value.kind = "Length"
            /\ Len(v) \in 1..4
            /\ Len(v) = 1 =>
                  Side(1) = v[1] /\ Side(2) = v[1] /\ Side(3) = v[1] /\ Side(4) = v[1]
            /\ Len(v) = 2 =>
                  Side(1) = v[1] /\ Side(3) = v[1] /\ Side(2) = v[2] /\ Side(4) = v[2]
            /\ Len(v) = 3 =>
                  Side(1) = v[1] /\ Side(2) = v[2] /\ Side(4) = v[2] /\ Side(3) = v[3]
            /\ Len(v) = 4 =>
                  Side(1) = v[1] /\ Side(2) = v[2] /\ Side(3) = v[3] /\ Side(4) = v[4]
            /\ (\A i \in 1..Len(source.tokens) : source.tokens[i] # TokenTen) =>
                  v = [i \in 1..Len(source.tokens) |-> TokenLength(source.tokens[i])]

\* "1em 2px 0.5em;" was parsed as a margin: top 1em, right and left 2px,
\* bottom 0.5em.
ShorthandFollowsValueRuleWitness ==
    /\ pc = "parsed"
    /\ result.status = "ok"
    /\ source.property = "Margin"
    /\ source.tokens = <<TokenOneEm, TokenTwoPx, TokenHalfEm>>
    /\ Side(1) = Actual(Number(1, << >>), "Em")
    /\ Side(2) = Actual(Number(2, << >>), "Px")
    /\ Side(3) = Actual(Number(0, <<"5">>), "Em")
    /\ Side(4) = Actual(Number(2, << >>), "Px")

(***************************************************************************)
(* Vocabulary of the stylesheet parser claims.                             *)
(***************************************************************************)
\* The properties a declaration text of the source stands for, in order.
ExpectedProperties(text) ==
    CASE text \in {MarginTwoValues, MarginNoSemicolon} -> SideNames("Margin")
      [] text \in {PaddingAuto, PaddingZeroAuto} -> SideNames("Padding")
      [] text \in {WidthTenPx, WidthNoSemicolon} -> <<"Width">>
      [] text = DisplayNone -> <<"Display">>
      [] text = ColorHex -> <<"Color">>
      [] text = MarginLeftAuto -> <<"MarginLeft">>
      [] text = ZoomBig -> <<OtherProperty("zoom")>>

RECURSIVE ExpectedOfAll(_)
ExpectedOfAll(texts) ==
    IF texts = << >> THEN << >>
    ELSE ExpectedProperties(Head(texts)) \o ExpectedOfAll(Tail(texts))

PropertiesOf(rule) ==
    [di \in 1..Len(rule.declarations) |-> rule.declarations[di].property]

PartDiv == <<"d", "i", "v">>
\* ".table"
PartTable == <<".", "t", "a", "b", "l", "e">>
\* "p#box"
PartPBox == <<"p", "#", "b", "o", "x">>
\* "h1.note"
PartH1Note == <<"h", "1", ".", "n", "o", "t", "e">>
\* "p.a.b"
PartTwoClasses == <<"p", ".", "a", ".", "b">>
\* ""
PartNone == <<>>
\* " > "
CombChild == <<" ", ">", " ">>
\* " + "
CombAdjacent == <<" ", "+", " ">>
\* ">"
CombChildTight == <<">">>

SelectorParts == {PartDiv, PartTable, PartPBox, PartH1Note, PartTwoClasses, PartNone}
Combinators == {CombChild, CombAdjacent, CombChildTight}

\* What follows the chain: nothing, or the '{' of the rule.
ChainEnds == {<< >>, <<" ", "{">>}

\* Chains of n parts and the n - 1 combinators between them.
ChainSources(n) ==
    {[parts |-> ps, combs |-> cs, end |-> e] :
        ps \in [1..n -> SelectorParts],
        cs \in [1..(n - 1) -> Combinators],
        e \in ChainEnds}

\* s1 c1 s2 c2 ... sn
RECURSIVE ChainOf(_, _)
ChainOf(ps, cs) ==
    IF Len(ps) = 1 THEN ps[1]
    ELSE ps[1] \o cs[1] \o ChainOf(Tail(ps), Tail(cs))

ChainText(src) == ChainOf(src.parts, src.combs) \o src.end

InitSelector ==
    /\ pc = "start"
    /\ \E n \in 1..MaxChain : source \in ChainSources(n)
    /\ input = ChainText(source)
    /\ result = NoResult
    /\ element = NoElement
    /\ selector = NoSelector
    /\ matched = FALSE
    /\ sheet = << >>
    /\ styles = EmptyStyleMap
    /\ inserted = << >>
    /\ dom = NoElement
    /\ tree = None
    /\ calls = << >>

ParseOneSelectorStep ==
    /\ pc = "start"
    /\ pc' = "parsed"
    /\ result' = ParseOneSelector(input, 1)
    /\ UNCHANGED <<element, selector, matched, sheet, styles, inserted, dom,
                   tree, calls, source, input>>

NextSelector == ParseOneSelectorStep

SpecSelector == InitSelector /\ [][NextSelector]_vars

(***************************************************************************)
(* Vocabulary of the selector parser claims.                               *)
(***************************************************************************)
\* The parts that are one simple or one compound selector.
PlainParts == {PartDiv, PartTable, PartPBox, PartH1Note}

\* The selector a plain part stands for.
PartSelector(part) ==
    CASE part = PartDiv -> Tag("Div")
      [] part = PartTable -> Class(None, "table")
      [] part = PartPBox -> Id(Some(Tag("P")), "box")
      [] part = PartH1Note -> Class(Some(Tag("H1")), "note")

CombinatorOf(comb, l, r) ==
    IF comb = CombAdjacent THEN Adjacent(l, r) ELSE Child(l, r)

\* c1(s1, c2(s2, ... sn))
RECURSIVE RightNested(_, _)
RightNested(ps, cs) ==
    IF Len(ps) = 1 THEN PartSelector(ps[1])
    ELSE CombinatorOf(cs[1], PartSelector(ps[1]), RightNested(Tail(ps), Tail(cs)))

\* No Child or Adjacent inside sel has a Child or Adjacent as left operand.
RECURSIVE LeftOperandsAreSimple(_)
LeftOperandsAreSimple(sel) ==
    CASE sel.kind \in {"Child", "Adjacent"} ->
            /\ sel.left.kind \notin {"Child", "Adjacent"}
            /\ LeftOperandsAreSimple(sel.left)
            /\ LeftOperandsAreSimple(sel.right)
      [] sel.kind \in {"Class", "Id"} ->
            sel.left = None \/ LeftOperandsAreSimple(sel.left[1])
      [] OTHER -> TRUE

PairAa == <<"a", "a">>
PairOneOne == <<"1", "1">>
PairUpperFf == <<"F", "F">>
PairZeroF == <<"0", "f">>
PairMixedAb == <<"A", "b">>

HexPairs == {PairAa, PairOneOne, PairUpperFf, PairZeroF, PairMixedAb}

\* "zz": two characters that are letters and no hex digits
JunkZz == <<"z", "z">>

\* '#', n pairs, nothing or "zz" after them, and the ';' with or without a
\* space before it.
ColorSources(n) ==
    {[property |-> p, pairs |-> ps, junk |-> j, end |-> e] :
        p \in {"Color", "BackgroundColor"},
        ps \in [1..n -> HexPairs],
        j \in {<< >>, JunkZz},
        e \in {<<";">>, <<" ", ";">>}}

ColorText(src) == <<"#">> \o Concat(src.pairs) \o src.junk \o src.end

InitColor ==
    /\ pc = "start"
    /\ \E n \in 1..MaxPairs : source \in ColorSources(n)
    /\ input = ColorText(source)
    /\ result = NoResult
    /\ element = NoElement
    /\ selector = NoSelector
    /\ matched = FALSE
    /\ sheet = << >>
    /\ styles = EmptyStyleMap
    /\ inserted = << >>
    /\ dom = NoElement
    /\ tree = None
    /\ calls = << >>

ParseDeclarationStep ==
    /\ pc = "start"
    /\ pc' = "parsed"
    /\ result' = ParseDeclaration(input, 1, source.property)
    /\ UNCHANGED <<element, selector, matched, sheet, styles, inserted, dom,
                   tree, calls, source, input>>

NextColor == ParseDeclarationStep

SpecColor == InitColor /\ [][NextColor]_vars

\* The number a pair of hex digits stands for.
PairValue(pair) ==
    CASE pair = PairAa -> 170
      [] pair = PairOneOne -> 17
      [] pair = PairUpperFf -> 255
      [] pair = PairZeroF -> 15
      [] pair = PairMixedAb -> 171

\* C13: a color or background-color value of '#' and three or four pairs of hex
\* digits is parsed with r, g and b the values of the first, second and third
\* pair, and with a the value of the fourth pair, or 0 when there are only
\* three; lower-case and upper-case digits alike.
ColorChannelsArePairs ==
    (pc = "parsed" /\ Len(source.pairs) \in {3, 4} /\ source.junk = << >>) =>
        /\ result.status = "ok"
        /\ result.val.property = source.property
        /\ result.val.value =
              ColorValue(PairValue(source.pairs[1]), PairValue(source.pairs[2]),
                         PairValue(source.pairs[3]),
                         IF Len(source.pairs) = 4 THEN PairValue(source.pairs[4])
                         ELSE 0)

\* "#aaFF0f;" was parsed: r 0xaa, g 0xff, b 0x0f and no alpha.
ColorChannelsArePairsWitness ==
    /\ pc = "parsed"
    /\ result.status = "ok"
    /\ source.pairs = <<PairAa, PairUpperFf, PairZeroF>>
    /\ result.val.value = ColorValue(170, 255, 15, 0)

(***************************************************************************)
(* Vocabulary of the round trip claim.                                     *)
(***************************************************************************)
\* The pieces or characters that are not whitespace, as one String.
RECURSIVE Squeezed(_)
Squeezed(pieces) ==
    IF pieces = << >> THEN ""
    ELSE (IF Head(pieces) \in Whitespace THEN "" ELSE Head(pieces))
           \o Squeezed(Tail(pieces))

\* C14: round trip.  The Debug formatting of the StyleSheet parsed from a
\* well-formed single-rule text is that text again, selector group and
\* declarations, up to whitespace.
DebugReproducesText ==
    (pc = "formatted" /\ source.tail = << >>) =>
        Squeezed(result.debug) = Squeezed(input)

\* C15: parse terminates on every text: it returns a StyleSheet or ends in a
\* fatal error, every iteration of its loops consuming a character or
\* failing; no loop is left running with the cursor where it was.
ParseTerminates ==
    pc = "parsed" => result.status \in {"ok", "panic"}

\* The declaration texts that lack their ';'.
LacksSemicolon(text) == text \in {MarginNoSemicolon, WidthNoSemicolon}

\* C18: a missing delimiter is fatal.  When the ';' of a declaration is
\* absent, after a plain declaration or after a margin/padding shorthand, in
\* the last declaration or before another one, parse ends in a fatal error
\* and returns no StyleSheet.
MissingDelimiterIsFatal ==
    (pc = "parsed" /\ \E i \in 1..Len(source.decls) : LacksSemicolon(source.decls[i]))
        => result.status = "panic"

(***************************************************************************)
(* SpecDom: an HTML text is put together from pieces, and                  *)
(* DocumentObjectParser::parse is run on it.                               *)
(***************************************************************************)
MaxPieces == 4      \* pieces of the HTML text drawn

OpenDiv == <<"<", "d", "i", "v", ">">>
OpenP == <<"<", "p", " ", "c", "l", "a", "s", "s", "=", "\"", "a", "\"", ">">>
CloseDiv == <<"<", "/", "d", "i", "v", ">">>
CloseP == <<"<", "/", "p", ">">>
TextHi == <<"h", "i", " ", "\n", " ", "y", "o", " ">>
StrayGt == <<">">>
CommentC == <<"<", "!", "-", "-", "c", "-", "-", ">">>
SelfMeta ==
    <<"<", "m", "e", "t", "a", " ", "i", "d", "=", "\"", "m", "\"", " ", "/",
      ">">>
SelfDiv == <<"<", "d", "i", "v", " ", "/", ">">>

OpenPieces == {"OpenDiv", "OpenP"}
ClosePieces == {"CloseDiv", "CloseP"}
LeafPieces == {"TextHi", "CommentC", "SelfMeta"}
Pieces == OpenPieces \cup ClosePieces \cup LeafPieces \cup {"StrayGt", "SelfDiv"}

PieceText(piece) ==
    CASE piece = "OpenDiv" -> OpenDiv
      [] piece = "OpenP" -> OpenP
      [] piece = "CloseDiv" -> CloseDiv
      [] piece = "CloseP" -> CloseP
      [] piece = "TextHi" -> TextHi
      [] piece = "StrayGt" -> StrayGt
      [] piece = "CommentC" -> CommentC
      [] piece = "SelfMeta" -> SelfMeta
      [] piece = "SelfDiv" -> SelfDiv

\* The tag an opening or closing piece names.
PieceTag(piece) == IF piece \in {"OpenDiv", "CloseDiv"} THEN "Div" ELSE "P"

HtmlSources(n) == [1..n -> Pieces]

RECURSIVE HtmlText(_)
HtmlText(pieces) ==
    IF pieces = << >> THEN << >>
    ELSE PieceText(Head(pieces)) \o HtmlText(Tail(pieces))

InitDom ==
    /\ pc = "start"
    /\ \E n \in 1..MaxPieces : source \in HtmlSources(n)
    /\ input = HtmlText(source)
    /\ result = NoResult
    /\ element = NoElement
    /\ selector = NoSelector
    /\ matched = FALSE
    /\ sheet = << >>
    /\ styles = EmptyStyleMap
    /\ inserted = << >>
    /\ dom = NoElement
    /\ tree = None
    /\ calls = << >>

DomParseStep ==
    /\ pc = "start"
    /\ pc' = "parsed"
    /\ result' = DomParse(input)
    /\ UNCHANGED <<element, selector, matched, sheet, styles, inserted, dom,
                   tree, calls, source, input>>

NextDom == DomParseStep

SpecDom == InitDom /\ [][NextDom]_vars

(***************************************************************************)
(* SpecTokens: a slice of tokens is drawn, and DOMParser::parse is run on  *)
(* it.  DOMParser::new takes any slice, one that ends with Eof or not.     *)
(***************************************************************************)
MaxTokens == 4      \* tokens of the slice drawn

DivData == ElementData("div", << >>)
PData == ElementData("p", << <<"class", "a">> >>)
MetaData == ElementData("meta", << <<"id", "m">> >>)

Tokens ==
    {TextToken("hi"), StartTagToken(DivData), StartTagToken(PData),
     EndTagToken("div"), EndTagToken("p"), SelfClosingTagToken(MetaData),
     CommentToken("c"), Eof, Illegal}

TokenSources(n) == [1..n -> Tokens]

InitTokens ==
    /\ pc = "start"
    /\ \E n \in 1..MaxTokens : source \in TokenSources(n)
    /\ input = << >>
    /\ result = NoResult
    /\ element = NoElement
    /\ selector = NoSelector
    /\ matched = FALSE
    /\ sheet = << >>
    /\ styles = EmptyStyleMap
    /\ inserted = << >>
    /\ dom = NoElement
    /\ tree = None
    /\ calls = << >>

TokenParseStep ==
    /\ pc = "start"
    /\ pc' = "parsed"
    /\ result' = TokenParse(source)
    /\ UNCHANGED <<element, selector, matched, sheet, styles, inserted, dom,
                   tree, calls, source, input>>

NextTokens == TokenParseStep

SpecTokens == InitTokens /\ [][NextTokens]_vars

(***************************************************************************)
(* Claims about the DOM builders.                                          *)
(***************************************************************************)
\* C16: DocumentObjectParser::parse ends on every text, with a Node or with
\* a fatal error: no run of parse_children goes round without end.
DomParseTerminates == pc = "parsed" => result.status \in {"ok", "panic"}

\* A Node that is EndTag or holds one at some depth.
RECURSIVE HoldsEndTag(_)
HoldsEndTag(node) ==
    \/ node = EndTagNode
    \/ /\ node.kind = "Element"
       /\ \E i \in 1..Len(node.children) : HoldsEndTag(node.children[i])

\* C17: the Node DocumentObjectParser::parse returns is not EndTag and holds
\* no EndTag at any depth; a text that starts with an end tag gives no Node.
EndTagNeverEscapes ==
    (pc = "parsed" /\ result.status = "ok") => ~HoldsEndTag(result.val)

\* An opening piece, leaves, and the closing piece of the other tag.
Mismatched(pieces) ==
    /\ Len(pieces) >= 2
    /\ pieces[1] \in OpenPieces
    /\ pieces[Len(pieces)] \in ClosePieces
    /\ PieceTag(pieces[1]) # PieceTag(pieces[Len(pieces)])
    /\ \A i \in 2..Len(pieces) - 1 : pieces[i] \in LeafPieces

\* C19: an element is closed only by an end tag of its own name: for
\* <a>...</b> with a different from b, parse does not return the element a.
ClosedOnlyByOwnEndTag ==
    (pc = "parsed" /\ Mismatched(source)) => result.status # "ok"

\* A slice that runs out while an element is open: a start tag, then
\* childless nodes, and nothing after them.
RunsOutInsideElement(tokens) ==
    /\ tokens # << >>
    /\ tokens[1].kind = "StartTagToken"
    /\ \A i \in 2..Len(tokens) :
          tokens[i].kind \in {"TextToken", "SelfClosingTagToken", "CommentToken"}

\* C20: running out of input while an element is open is a fatal error: with
\* the iterator exhausted inside parse_start_tag, DOMParser::parse stops with
\* an error and returns no tree.
ExhaustedInputIsFatal ==
    (pc = "parsed" /\ RunsOutInsideElement(source)) => result.status = "panic"

\* The self-closing pieces, and the element each one writes.
SelfPieces == {"SelfDiv", "SelfMeta"}
SelfElement(piece) ==
    IF piece = "SelfDiv" THEN NewElement("Div", << >>, << >>)
    ELSE NewElement("Meta", << <<"Id", "m">> >>, << >>)

\* C21: a self-closing tag yields a childless element, with an attribute
\* list or with none (<div />): parse returns the element with that tag, those
\* attributes and no children, and consumes nothing of what follows the tag.
SelfClosingIsChildless ==
    (pc = "parsed" /\ source[1] \in SelfPieces)
        => /\ result.status = "ok"
           /\ result.val = SelfElement(source[1])
           /\ result.pos = Len(PieceText(source[1])) + 1

\* The characters with every run of whitespace made one space.
RECURSIVE CollapseRuns(_)
CollapseRuns(chars) ==
    IF chars = << >> THEN << >>
    ELSE IF Head(chars) \in Whitespace
    THEN <<" ">> \o CollapseRuns(SubSeq(chars, SkipWhitespace(chars, 1),
                                        Len(chars)))
    ELSE <<Head(chars)>> \o CollapseRuns(Tail(chars))

\* The text run a text starts with: its characters up to the first '<' or '>'.
TextRun(in) == SubSeq(in, 1, TakeWhile(in, 1, HtmlChars \ {"<", ">"}) - 1)

\* C22: a Text node holds its text run with every maximal run of whitespace
\* (spaces, tabs, newlines) collapsed to one space and no trailing whitespace.
TextIsNormalized ==
    (pc = "parsed" /\ source[1] = "TextHi")
        => result = Ok(Len(TextRun(input)) + 1,
                       TextNode(Str(CollapseRuns(TrimEnd(TextRun(input))))))

\* C23: class and id compounding repeats on one selector: a part with two
\* classes, p.a.b, is parsed by parse_one_selector to the single selector
\* Class(Some(Class(Some(Tag(p)), "a")), "b").
CompoundingRepeats ==
    (pc = "parsed" /\ source.parts = <<PartTwoClasses>>)
        => /\ result.status = "ok"
           /\ result.val = Class(Some(Class(Some(Tag("P")), "a")), "b")

\* The places, in DOM order, of the children of an element that are not
\* excluded; a node that is no element has no children.
KeptIndexes(node) ==
    IF IsElement(node)
    THEN SelectSeq([i \in 1..Len(node.children) |-> i],
                   LAMBDA i : ~Excluded(node.children[i]))
    ELSE << >>

\* C24: the children of a RenderObject are the objects built for the DOM
\* children of its node that build returns a result for, one each, in the
\* order of the DOM: none is left out, duplicated or reordered.
ChildrenKeepDomOrder ==
    pc = "built" =>
        \A obj \in TreeObjects :
            /\ Len(obj.children) = Len(KeptIndexes(NodeAt(dom, obj.node)))
            /\ \A k \in 1..Len(obj.children) :
                  obj.children[k].node =
                      Append(obj.node, KeptIndexes(NodeAt(dom, obj.node))[k])

\* <div><script></script><div><p></p></div></div> with no rule: the root has
\* the one child built for the inner div, which has the child built for p.
ChildrenKeepDomOrderWitness ==
    /\ pc = "built"
    /\ sheet = << >>
    /\ dom = NewElement("Div", << >>,
                <<NewElement("Script", << >>, << >>),
                  NewElement("Div", << >>, <<NewElement("P", << >>, << >>)>>)>>)
    /\ tree # None
    /\ Len(tree[1].children) = 1
    /\ tree[1].children[1].node = <<2>>
    /\ Len(tree[1].children[1].children) = 1
    /\ tree[1].children[1].children[1].node = <<2, 1>>

\* The display declarations that apply to the element, as places <<rule,
\* declaration>> of the stylesheet: those of the rules with a selector that
\* matches it.
DisplayPlaces(node) ==
    {<<ri, di>> \in (1..Len(sheet)) \X (1..MaxDecls) :
        /\ di <= Len(sheet[ri].declarations)
        /\ sheet[ri].declarations[di].property = "Display"
        /\ \E si \in 1..Len(sheet[ri].selectors) :
              Matches(sheet[ri].selectors[si], node)}

Later(a, b) == a[1] > b[1] \/ (a[1] = b[1] /\ a[2] >= b[2])

\* The display declaration that comes last in the stylesheet is None.
WinningDisplayIsNone(node) ==
    \E w \in DisplayPlaces(node) :
        /\ \A o \in DisplayPlaces(node) : Later(w, o)
        /\ sheet[w[1]].declarations[w[2]].value = DisplayValue("None")

\* C25: build returns a RenderObject for an element exactly when its tag is
\* neither meta nor script and the display value that wins the cascade is
\* not None: a display none that a later matching rule overwrites does not
\* prune, and a later display none prunes whatever an earlier rule set.
BuildKeepsIffWinnerNotNone ==
    pc = "built" =>
        \A p \in PathsOf(dom) :
            (Called(p) /\ IsElement(NodeAt(dom, p))) =>
                ((\E obj \in TreeObjects : obj.node = p)
                    <=> /\ ~NonVisual(NodeAt(dom, p))
                        /\ ~WinningDisplayIsNone(NodeAt(dom, p)))

\* Under div {display: none} .box, p {display: block} p {display: none} the
\* root <div class="box"> is kept, its none being overwritten, and its child
\* <p> is pruned by the later none.
BuildKeepsIffWinnerNotNoneWitness ==
    /\ pc = "built"
    /\ sheet = <<DisplayRule(<<Tag("Div")>>, "None"),
                 DisplayRule(<<Class(None, "box"), Tag("P")>>, "Block"),
                 DisplayRule(<<Tag("P")>>, "None")>>
    /\ dom = NewElement("Div", AttributesOf(None, Some("box")),
                <<NewElement("P", << >>, << >>)>>)
    /\ tree # None
    /\ tree[1].children = << >>
    /\ calls = << << >>, <<1>> >>

\* C26: each whitespace-separated token of a margin/padding shorthand gives
\* exactly one Length: a number without a unit is Actual(n, Px) and the token
\* after it is a value of its own, so "10 auto" is read as two values.
TokensAreSeparateValues ==
    (pc = "parsed" /\ result.status = "ok") =>
        ParsedValues =
            [i \in 1..Len(source.tokens) |-> TokenLength(source.tokens[i])]

\* C27: when the characters after the six hex digits of r, g and b are no
\* hex digits (#aa11ffzz;), the declaration is still produced, with alpha 0,
\* and the parse does not fail.
NonHexAlphaIsZero ==
    (pc = "parsed" /\ Len(source.pairs) = 3 /\ source.junk = JunkZz) =>
        /\ result.status = "ok"
        /\ result.val.value =
              ColorValue(PairValue(source.pairs[1]), PairValue(source.pairs[2]),
                         PairValue(source.pairs[3]), 0)

(***************************************************************************)
(* Node::extract_style (src/src/lib/dom/prelude.rs): the text of the style *)
(* element of a DOM, which here has the node Style(String) for the text    *)
(* inside <style>.                                                         *)
(***************************************************************************)
StyleNode(s) == [kind |-> "Style", text |-> s]

\* fn is_style
IsStyle(e) == e.tag_name = "Style"

\* Element::find_style and Node::find_style: None for an element with no
\* children, the element itself when it is a style element, else the first
\* Some that find_style gives for a child.
RECURSIVE ElementFindStyle(_)
RECURSIVE FindStyleLoop(_, _)
NodeFindStyle(node) ==
    IF node.kind = "Element" THEN ElementFindStyle(node) ELSE None
FindStyleNext(e, i, elem) ==
    IF elem # None THEN elem ELSE FindStyleLoop(e, i + 1)
FindStyleLoop(e, i) ==
    IF i > Len(e.children) THEN None
    ELSE FindStyleNext(e, i, NodeFindStyle(e.children[i]))
ElementFindStyle(e) ==
    IF e.children = << >> THEN None
    ELSE IF IsStyle(e) THEN Some(e)
    ELSE FindStyleLoop(e, 1)

\* fn extract_style: find_style().unwrap().children[0], its String when it is
\* a Style node and "" when it is another node
ExtractStyleOf(found) ==
    IF found = None THEN Panic(0)
    ELSE IF found[1].children[1].kind = "Style"
    THEN Ok(0, found[1].children[1].text)
    ELSE Ok(0, "")
ExtractStyle(node) == ExtractStyleOf(NodeFindStyle(node))

(***************************************************************************)
(* SpecStyle: a DOM with style elements at two depths is drawn and         *)
(* extract_style is run on its root.                                       *)
(***************************************************************************)
MaxStyleNodes == 3      \* children of the root of the DOMs drawn

StyleEmpty == NewElement("Style", << >>, << >>)
StyleA == NewElement("Style", << >>, <<StyleNode("a")>>)
StyleB == NewElement("Style", << >>, <<StyleNode("b")>>)
StyleOfText == NewElement("Style", << >>, <<TextNode("t")>>)

StyleMidNodes ==
    {StyleEmpty, StyleA, StyleB, StyleOfText, TextNode("x"),
     NewElement("P", << >>, << >>),
     NewElement("Head", << >>, <<StyleB>>),
     NewElement("Head", << >>, <<StyleEmpty>>)}

StyleRoots(n) == {NewElement("Html", << >>, ch) : ch \in [1..n -> StyleMidNodes]}

InitStyle ==
    /\ pc = "start"
    /\ \/ dom \in {TextNode("x"), NewElement("Html", << >>, << >>), StyleA}
       \/ \E n \in 1..MaxStyleNodes : dom \in StyleRoots(n)
    /\ result = NoResult
    /\ source = NoSource
    /\ input = << >>
    /\ element = NoElement
    /\ selector = NoSelector
    /\ matched = FALSE
    /\ sheet = << >>
    /\ styles = EmptyStyleMap
    /\ inserted = << >>
    /\ tree = None
    /\ calls = << >>

ExtractStyleStep ==
    /\ pc = "start"
    /\ pc' = "extracted"
    /\ result' = ExtractStyle(dom)
    /\ UNCHANGED <<element, selector, matched, sheet, styles, inserted, dom,
                   tree, calls, source, input>>

NextStyle == ExtractStyleStep

SpecStyle == InitStyle /\ [][NextStyle]_vars

\* The style elements of a DOM in pre-order.
RECURSIVE StyleElements(_)
RECURSIVE StyleElementsFrom(_, _)
StyleElementsFrom(e, i) ==
    IF i > Len(e.children) THEN << >>
    ELSE StyleElements(e.children[i]) \o StyleElementsFrom(e, i + 1)
StyleElements(node) ==
    IF node.kind # "Element" THEN << >>
    ELSE (IF node.tag_name = "Style" THEN <<node>> ELSE << >>)
           \o StyleElementsFrom(node, 1)

\* The text inside a style element: none when it has no children.
StyleContent(e) ==
    IF e.children # << >> /\ e.children[1].kind = "Style"
    THEN e.children[1].text
    ELSE ""

\* C28: extract_style returns the text content of the style element that
\* comes first in pre-order of the DOM, also when that one has no children.
ExtractsFirstStyle ==
    (pc = "extracted" /\ StyleElements(dom) # << >>) =>
        result = Ok(0, StyleContent(Head(StyleElements(dom))))

CommaItems(text) == 1 + Cardinality({i \in 1..Len(text) : text[i] = ","})

\* The selectors the well-formed groups drawn stand for.
GroupSelectors(text) ==
    CASE text = SelectorDiv -> <<Tag("Div")>>
      [] text = SelectorChild -> <<Child(Tag("Div"), Class(None, "table"))>>
      [] text = SelectorGroup -> <<Tag("H1"), Class(None, "a")>>

\* C30: the selector list of a Rule returned by the stylesheet parser is not
\* empty and holds one Selector for each comma-separated item of the group,
\* in source order; selectors with no comma between them are not taken as
\* two members of the group.
SelectorsAreGroupItems ==
    (pc = "parsed" /\ result.status = "ok") =>
        /\ result.val[1].selectors # << >>
        /\ Len(result.val[1].selectors) = CommaItems(source.selectors)
        /\ source.selectors \in {SelectorDiv, SelectorChild, SelectorGroup} =>
              result.val[1].selectors = GroupSelectors(source.selectors)

====
